---- MODULE Spec2Model ----
(***************************************************************************)
(* Model of the Gemini job scripts of video-analyzer: the retrying         *)
(* generate_content wrapper (_generate_with_retry) and the upload / poll / *)
(* generate / teardown life cycle of analyze_video_gemini,                 *)
(* select_and_extract_thumbnails, generate_transcription and               *)
(* select_highlights.                                                      *)
(*                                                                         *)
(* Durations are integers in milliseconds (5.0 s = 5000); the jitter draw  *)
(* random.uniform(0.05, 0.25) is a whole percentage and the backoff        *)
(* multiplier is in tenths (1.7 = 17).                                     *)
(***************************************************************************)
EXTENDS Integers, Sequences, FiniteSets, TLC

\* ------------------------------------------------------------------ bounds
\* Largest max_retries given to _generate_with_retry when it runs on its own.
MaxK == 3

\* Cap on the max_retries default when the wrapper runs inside a job.
JobMaxK == 1

\* Polls of the loop that are counted and recorded; the loop itself may go
\* on past them.
MaxPolls == 2

\* Largest number of entries in a response that is built entry by entry.
MaxItems == 3

\* Largest number of entries in a response made of evenly spaced entries.
MaxSeries == 12

\* Largest number of iterations of a polling loop whose estimate is followed.
MaxTicks == 4

\* Quarters of a second the clock of the upload heartbeat runs.
MaxClock == 8

\* Commands typed into the interactive corrector.
MaxCmds == 3
\* Highlight moments in an analysis given to the validator.
MaxMoments == 3
\* Momentum shifts, and techniques, in an analysis given to the validator.
MaxSpans == 1

\* ------------------------------------------------------- program constants
\* max_retries defaults of _generate_with_retry, per script.
DefaultMaxRetries ==
  [analyzer |-> 8, thumbnails |-> 8, transcription |-> 8, highlights |-> 6]

\* initial_delay default (5.0 s) and the floor of max(0.5, initial_delay).
DefaultInitialDelay == 5000
MinInitialDelay == 500

\* backoff defaults in tenths: 1.7 (analyzer, thumbnails, transcription,
\* highlights) and 2.0 (editing guide).
DefaultBackoff == 17

\* random.uniform(0.05, 0.25), in percent: its two ends, and the draws taken.
JitterLo == 5
JitterHi == 25

\* Highlights, in tenths of a second: the 0.5 s floor of parse_and_validate,
\* the 5.0 s length both functions repair to, the accepted 4.5 .. 5.5 s
\* range, the 2.0 s spacing and the cap of 10 of normalize_highlights.
MinParsedLength == 5
RepairLength == 50
MinLength == 45
MaxLength == 55
Spacing == 20
MaxHighlights == 10

\* Thumbnails: "if len(deduped) > 10: deduped = deduped[:10]".
MaxThumbnails == 10

\* Editing guide: "end_s = start_s + 2.0" for an edit whose end is not after
\* its start.
DefaultEditLength == 20

\* ---------------------------------------------------------------- values
\* The text of an exception, reduced to what _parse_retry_delay reads from
\* it: the number after "retry in" (ms) and the number inside
\* "retry_delay { seconds: N }" (s); -1 where the pattern is absent.
NoHint == [retry_in |-> -1, retry_delay |-> -1]

RateLimited == "ResourceExhausted"
TransientTypes == {"ServiceUnavailable", "DeadlineExceeded"}

\* What generate_content can raise: (type, message) pairs.  "ValueError"
\* stands for every exception that is none of the three retryable classes.
GenFailures ==
  ({RateLimited} \X { NoHint,
                      [retry_in |-> 3000, retry_delay |-> -1],
                      [retry_in |-> 0, retry_delay |-> -1],
                      [retry_in |-> -1, retry_delay |-> 4] })
    \cup ({"ServiceUnavailable"} \X {NoHint, [retry_in |-> 3000, retry_delay |-> -1]})
    \cup ({"DeadlineExceeded"} \X {NoHint})
    \cup ({"ValueError"} \X {NoHint})

\* An exception object; call is the number of the generate_content call
\* that raised it (0 for exceptions raised elsewhere).
Exc(type, msg, call) == [type |-> type, msg |-> msg, call |-> call]
NoExc == Exc("none", NoHint, 0)
KeyboardInterrupt == Exc("KeyboardInterrupt", NoHint, 0)

\* Classes derived from Exception (KeyboardInterrupt is a BaseException).
IsException(e) == e.type # "KeyboardInterrupt"

\* How a function ends: still running, returned, raised exc, or sys.exit(1).
Result(kind, exc) == [kind |-> kind, exc |-> exc]
Running == Result("running", NoExc)
Returned == Result("ok", NoExc)
Raised(e) == Result("raised", e)
SystemExit1 == Result("exit", NoExc)

Min(a, b) == IF a < b THEN a ELSE b
Max(a, b) == IF a > b THEN a ELSE b

\* ------------------------------------------------------------------ state
VARIABLES
  \* _generate_with_retry
  max_retries,   \* parameter
  backoff,       \* parameter, in tenths
  attempt,       \* local: failures handled so far
  delay,         \* local: current exponential delay, ms
  rpc,           \* "idle" | "call" | "sleep" | "returned" | "raised"
  rresult,       \* how the function ended
  calls,         \* generate_content calls made
  errors,        \* exceptions raised by generate_content, in order
  sleeps,        \* arguments of time.sleep, in order
  \* the job around it
  job,           \* which script runs ("none": the wrapper on its own)
  file_id,       \* --file-id argument, "" when absent
  pc,            \* position of the job
  own_upload,    \* local flag of the job
  video_file,    \* local: [name, state] as last returned by the remote
  polls,         \* get_file calls made inside the polling loop (MaxPolls: that many or more)
  trace,         \* genai calls issued by the job, in order (of the successful
                 \* polls, the first MaxPolls)
  primary,       \* how the work inside the guarded block ended
  interrupted,   \* where a KeyboardInterrupt arrived: "no" | "poll" | "backoff"
  outcome,       \* what the caller of the job observes
  \* parse_and_validate and normalize_highlights (times in tenths of a second)
  duration_seconds,  \* parameter of both
  response,      \* the "highlights" list of the model's JSON answer
  items,         \* result of parse_and_validate
  normalized,    \* result of normalize_highlights(items)
  renormalized,  \* result of normalize_highlights(normalized)
  npc,           \* "idle" | "respond" | "parsed" | "normalized" | "renormalized"
                 \* | "derived" | "deduped" | "written"
  tool,          \* which script works on the response
  parses,        \* whether json.loads accepts the text of the response
  final_highlights,  \* result of compute_frames_and_hms(normalized, fps)
  candidates,    \* thumbnails: the timestamps read from the response
  deduped,       \* thumbnails: the candidates kept
  max_edits,     \* editing guide: --max-edits
  guide,         \* editing guide: result of parse_and_validate_json
  written,       \* the list written to the output file
  nresult,       \* how the work on the response ended
  \* the processing-time estimate of a polling loop (times in ms)
  eta_rule,      \* "max" (max(est, elapsed * 1.25)) | "div" (elapsed / 0.7)
  clock,         \* time.monotonic() - start_time
  est_total,     \* local of the job
  elapsed,       \* local: elapsed time read by the latest iteration
  remaining,     \* local: time remaining shown by the latest iteration
  revised,       \* whether the latest iteration took the "if elapsed >= ..." branch
  ticks,         \* iterations run
  epc,           \* "idle" | "loop" | "done"
  \* gemini_orchestrator.main
  opc,           \* position of main
  gfile,         \* local: [name, state] of the shared upload
  returned,      \* sub-processors whose subprocess.run has returned, in order
  oresult,       \* how main ended, as its caller observes it
  \* the upload heartbeat (times in quarters of a second)
  hpc,           \* position of the _heartbeat thread
  mpc,           \* position of the thread that uploads
  stop_event,    \* threading.Event: whether it is set
  now,           \* time.monotonic()
  _last_t,       \* ProgressPrinter._last_t
  wake_at,       \* when the time.sleep of _heartbeat is over
  join_until,    \* when hb_thread.join(timeout=1.0) gives up
  stream,        \* lines written to the printer's stream, in order
  \* timestamp_corrector.interactive_mode (times in seconds)
  analysis,      \* local "data": the analysis being corrected
  disk,          \* content of the JSON file
  modified,      \* local flag
  cpc,           \* "idle" | "loop" | "done"
  cmds,          \* commands read so far
  asked,         \* whether 'q' asked to save
  \* timestamp_validator.main (times in seconds)
  analysis_json,     \* the analysis read from the JSON file
  video_duration_s,  \* what get_video_duration returned
  report,            \* the validation report being built
  vpc,               \* "idle" | "start" | "highlights" | "momentum" | "techniques" | "report" | "done"
  exit_status        \* what main returned, -1 before it returns

rvars == <<max_retries, backoff, attempt, delay, rpc, rresult, calls, errors, sleeps>>
jvars == <<job, file_id, pc, own_upload, video_file, polls, trace, primary, interrupted, outcome>>
nvars == <<duration_seconds, response, items, normalized, renormalized, npc,
           tool, parses, final_highlights, candidates, deduped, max_edits, guide,
           written, nresult>>
evars == <<eta_rule, clock, est_total, elapsed, remaining, revised, ticks, epc>>
ovars == <<opc, gfile, returned, oresult>>
hvars == <<hpc, mpc, stop_event, now, _last_t, wake_at, join_until, stream>>
cvars == <<analysis, disk, modified, cpc, cmds, asked>>
\* The components added after the jobs, for the frame of the earlier actions.
vvars == <<analysis_json, video_duration_s, report, vpc, exit_status>>
xvars == <<hvars, cvars, vvars>>
vars == <<max_retries, backoff, attempt, delay, rpc, rresult, calls, errors, sleeps,
          job, file_id, pc, own_upload, video_file, polls, trace, primary, interrupted, outcome,
          duration_seconds, response, items, normalized, renormalized, npc,
          tool, parses, final_highlights, candidates, deduped, max_edits, guide,
          written, nresult,
          eta_rule, clock, est_total, elapsed, remaining, revised, ticks, epc,
          analysis_json, video_duration_s, report, vpc, exit_status,
          opc, gfile, returned, oresult,
          hpc, mpc, stop_event, now, _last_t, wake_at, join_until, stream,
          analysis, disk, modified, cpc, cmds, asked>>

\* ------------------------------------------------- _generate_with_retry
\* _parse_retry_delay: the "retry in Ns" pattern wins, then
\* "retry_delay { seconds: N }", else -1.0; result in ms.
_parse_retry_delay(e) ==
  IF e.msg.retry_in >= 0 THEN e.msg.retry_in
  ELSE IF e.msg.retry_delay >= 0 THEN e.msg.retry_delay * 1000
  ELSE -1000

\* Variant: a catch-all "except Exception" that retries every failure.
IsRetryableCatchAll(type) == TRUE

\* The except clauses of the loop: which exception classes are handled.
IsRetryable(type) == type = RateLimited \/ type \in TransientTypes

\* Variant: the off-by-one test "attempt >= max_retries".
ExhaustedOffByOne(att, maxr) == att >= maxr

\* "if attempt > max_retries: raise"
Exhausted(att, maxr) == att > maxr

\* Variant: each handler counts on its own, so a transient failure leaves
\* the rate-limit count where it was.
AttemptAfterRateLimitOnly(att, e) == IF e.type = RateLimited THEN att + 1 ELSE att

\* "attempt += 1": the first statement of both except clauses, on the one
\* local counter.
AttemptAfter(att, e) == att + 1

\* Variant: the first failure is kept and raised at exhaustion.
ReraisedFirst(errs) == errs[1]

\* The bare "raise" of the handler re-raises the exception being handled,
\* which is the one the latest call raised.
Reraised(errs) == errs[Len(errs)]

\* Variant: the hint of the message is honoured for every retryable class.
BaseWaitAnyType(e, d) ==
  IF _parse_retry_delay(e) > 0 THEN _parse_retry_delay(e) ELSE d

\* The wait before jitter: the server hint for ResourceExhausted when it is
\* positive, the exponential delay otherwise.
BaseWait(e, d) ==
  IF e.type = RateLimited
    THEN (IF _parse_retry_delay(e) > 0 THEN _parse_retry_delay(e) ELSE d)
    ELSE d

\* wait *= (1.0 + random.uniform(0.05, 0.25))
Jittered(w, j) == (w * (100 + j)) \div 100

\* Variant: the delay grows by addition, "delay += backoff" (seconds).
NextDelayAdditive(d, b) == d + b * 100

\* Variant: the delay is divided, "delay /= backoff".
NextDelayShrinking(d, b) == (d * 10) \div b

\* delay *= backoff
NextDelay(d, b) == (d * b) \div 10

\* Entry of the function: attempt = 0, delay = max(0.5, initial_delay).
RetryEntry(maxr, initial_delay, b) ==
  /\ max_retries' = maxr
  /\ backoff' = b
  /\ attempt' = 0
  /\ delay' = Max(MinInitialDelay, initial_delay)
  /\ rpc' = "call"
  /\ rresult' = Running
  /\ calls' = 0
  /\ errors' = <<>>
  /\ sleeps' = <<>>

\* One pass of the while loop up to its return, its raise or its time.sleep.
GenCall ==
  /\ rpc = "call"
  /\ calls' = calls + 1
  /\ trace' = Append(trace, [op |-> "generate_content", arg |-> video_file.name, ok |-> TRUE])
  /\ \/ /\ rpc' = "returned"
        /\ rresult' = Returned
        /\ UNCHANGED <<attempt, errors, sleeps>>
     \/ \E f \in GenFailures, j \in {JitterLo, 10, JitterHi} :
          LET e == Exc(f[1], f[2], calls + 1)
              errs == Append(errors, e)
          IN /\ errors' = errs
             /\ IF ~IsRetryable(e.type)
                  THEN /\ rpc' = "raised"
                       /\ rresult' = Raised(e)
                       /\ UNCHANGED <<attempt, sleeps>>
                  ELSE /\ attempt' = AttemptAfter(attempt, e)
                       /\ IF Exhausted(AttemptAfter(attempt, e), max_retries)
                            THEN /\ rpc' = "raised"
                                 /\ rresult' = Raised(Reraised(errs))
                                 /\ UNCHANGED sleeps
                            ELSE /\ rpc' = "sleep"
                                 /\ rresult' = rresult
                                 /\ sleeps' = Append(sleeps, Jittered(BaseWait(e, delay), j))
  /\ UNCHANGED <<max_retries, backoff, delay>>
  /\ UNCHANGED <<job, file_id, interrupted, pc, own_upload, video_file, polls, primary, outcome>>
  /\ UNCHANGED <<nvars, evars, ovars, xvars>>

\* time.sleep returns: delay *= backoff; continue.
SleepReturn ==
  /\ rpc = "sleep"
  /\ delay' = NextDelay(delay, backoff)
  /\ rpc' = "call"
  /\ UNCHANGED <<max_retries, backoff, attempt, rresult, calls, errors, sleeps>>
  /\ UNCHANGED jvars
  /\ UNCHANGED <<nvars, evars, ovars, xvars>>


\* ------------------------------------------------------------ the jobs
Jobs == {"analyzer", "thumbnails", "transcription", "highlights"}

\* The name the remote gives to what upload_file returns.
UploadedName == "files/123"

\* state.name of a remote file; "ACTIVE" stands for every state that is
\* neither PROCESSING nor FAILED.
RemoteStates == {"PROCESSING", "ACTIVE", "FAILED"}

Call(op, arg, ok) == [op |-> op, arg |-> arg, ok |-> ok]

\* Reuse branch: genai.get_file(file_id); a failure ends in sys.exit(1).
GetExisting ==
  /\ pc = "start"
  /\ file_id # ""
  /\ \/ \E s \in RemoteStates :
          /\ video_file' = [name |-> file_id, state |-> s]
          /\ own_upload' = FALSE
          /\ trace' = Append(trace, Call("get_file", file_id, TRUE))
          /\ pc' = "poll"
          /\ UNCHANGED outcome
     \/ /\ trace' = Append(trace, Call("get_file", file_id, FALSE))
        /\ outcome' = SystemExit1
        /\ pc' = "done"
        /\ UNCHANGED <<video_file, own_upload>>
  /\ UNCHANGED <<job, file_id, interrupted, polls, primary>>
  /\ UNCHANGED rvars
  /\ UNCHANGED <<nvars, evars, ovars, xvars>>

\* Exception classes upload_file is let to raise here: a rate limit, a
\* transient outage, and one that is neither.
UploadFailureTypes == {RateLimited, "ServiceUnavailable", "OSError"}

\* Upload branch: one genai.upload_file call; its exception leaves the job.
Upload ==
  /\ pc = "start"
  /\ file_id = ""
  /\ \/ \E s \in RemoteStates :
          /\ video_file' = [name |-> UploadedName, state |-> s]
          /\ trace' = Append(trace, Call("upload_file", UploadedName, TRUE))
          /\ pc' = "poll"
          /\ UNCHANGED outcome
     \/ \E t \in UploadFailureTypes :
          /\ trace' = Append(trace, Call("upload_file", "", FALSE))
          /\ outcome' = Raised(Exc(t, NoHint, 0))
          /\ pc' = "done"
          /\ UNCHANGED video_file
  /\ UNCHANGED <<job, file_id, interrupted, own_upload, polls, primary>>
  /\ UNCHANGED rvars
  /\ UNCHANGED <<nvars, evars, ovars, xvars>>

\* Variant: the wait for processing is skipped.
StillProcessingNever(f) == FALSE

\* Variant: the loop gives up once MaxPolls polls have been made.
StillProcessingBounded(f) == f.state = "PROCESSING" /\ polls < MaxPolls

\* "while video_file.state.name == 'PROCESSING'"
StillProcessing(f) == f.state = "PROCESSING"

\* Variant: the FAILED check is missing.
ProcessingFailedIgnored(f) == FALSE

\* "if video_file.state.name == 'FAILED'"
ProcessingFailed(f) == f.state = "FAILED"

\* The test of "while video_file.state.name == 'PROCESSING'" and, when the
\* loop ends, the FAILED check and the start of the generation call.
PollTest ==
  /\ pc = "poll"
  /\ IF StillProcessing(video_file)
       THEN /\ pc' = "poll_sleep"
            /\ UNCHANGED outcome
            /\ UNCHANGED rvars
       ELSE IF ProcessingFailed(video_file)
         THEN /\ outcome' = SystemExit1
              /\ pc' = "done"
              /\ UNCHANGED rvars
         ELSE /\ pc' = "generate"
              /\ RetryEntry(Min(DefaultMaxRetries[job], JobMaxK), DefaultInitialDelay, DefaultBackoff)
              /\ UNCHANGED outcome
  /\ UNCHANGED <<job, file_id, interrupted, own_upload, video_file, polls, trace, primary>>
  /\ UNCHANGED <<nvars, evars, ovars, xvars>>

\* Variant: the poll is wrapped in "except Exception: continue".
PollFailureSwallowed(e) == [pc |-> "poll_sleep", outcome |-> Running]

\* An exception of get_file inside the loop: only KeyboardInterrupt has an
\* except clause there, so it leaves the job.
PollFailure(e) == [pc |-> "done", outcome |-> Raised(e)]

\* time.sleep returns and the loop body polls: genai.get_file(name).
PollGet ==
  /\ pc = "poll_sleep"
  /\ polls' = Min(polls + 1, MaxPolls)
  /\ \/ \E s \in RemoteStates :
          /\ video_file' = [name |-> video_file.name, state |-> s]
          /\ trace' = IF polls < MaxPolls
                         THEN Append(trace, Call("get_file", video_file.name, TRUE))
                         ELSE trace
          /\ pc' = "poll"
          /\ UNCHANGED outcome
     \/ /\ trace' = Append(trace, Call("get_file", video_file.name, FALSE))
        /\ outcome' = PollFailure(Exc("PollError", NoHint, 0)).outcome
        /\ pc' = PollFailure(Exc("PollError", NoHint, 0)).pc
        /\ UNCHANGED video_file
  /\ UNCHANGED <<job, file_id, interrupted, own_upload, primary>>
  /\ UNCHANGED rvars
  /\ UNCHANGED <<nvars, evars, ovars, xvars>>

\* KeyboardInterrupt arrives during the poll sleep; "except
\* KeyboardInterrupt" around the polling loop re-raises it, or calls
\* sys.exit(1) in generate_transcription.
InterruptPoll ==
  /\ pc = "poll_sleep"
  /\ interrupted' = "poll"
  /\ outcome' = IF job = "transcription" THEN SystemExit1 ELSE Raised(KeyboardInterrupt)
  /\ pc' = "done"
  /\ UNCHANGED <<job, file_id, own_upload, video_file, polls, trace, primary>>
  /\ UNCHANGED rvars
  /\ UNCHANGED <<nvars, evars, ovars, xvars>>

\* Variant: the interrupted sleep is swallowed and the loop goes on.
InterruptBackoffSwallowed ==
  /\ pc = "generate"
  /\ job \in Jobs
  /\ rpc = "sleep"
  /\ rpc' = "call"
  /\ interrupted' = "backoff"
  /\ delay' = NextDelay(delay, backoff)
  /\ UNCHANGED <<max_retries, backoff, attempt, rresult, calls, errors, sleeps>>
  /\ UNCHANGED <<job, file_id, pc, own_upload, video_file, polls, trace, primary, outcome>>
  /\ UNCHANGED <<nvars, evars, ovars, xvars>>

\* KeyboardInterrupt arrives during the backoff sleep of
\* _generate_with_retry; no except clause of the loop handles it.
InterruptBackoff ==
  /\ pc = "generate"
  /\ job \in Jobs
  /\ rpc = "sleep"
  /\ rpc' = "raised"
  /\ rresult' = Raised(KeyboardInterrupt)
  /\ interrupted' = "backoff"
  /\ UNCHANGED <<max_retries, backoff, attempt, delay, calls, errors, sleeps>>
  /\ UNCHANGED <<job, file_id, pc, own_upload, video_file, polls, trace, primary, outcome>>
  /\ UNCHANGED <<nvars, evars, ovars, xvars>>

\* _generate_with_retry is back in the job.
GenDone ==
  /\ pc = "generate"
  /\ job \in Jobs
  /\ \/ /\ rpc = "returned"
        /\ pc' = "post"
        /\ UNCHANGED primary
     \/ /\ rpc = "raised"
        /\ primary' = rresult
        /\ pc' = "teardown"
  /\ UNCHANGED <<job, file_id, interrupted, own_upload, video_file, polls, trace, outcome>>
  /\ UNCHANGED rvars
  /\ UNCHANGED <<nvars, evars, ovars, xvars>>

\* The work on the response (response.text, parsing, writing the output
\* files): it completes or raises.
Post ==
  /\ pc = "post"
  /\ primary' \in {Returned, Raised(Exc("OSError", NoHint, 0))}
  /\ pc' = "teardown"
  /\ UNCHANGED <<job, file_id, interrupted, own_upload, video_file, polls, trace, outcome>>
  /\ UNCHANGED rvars
  /\ UNCHANGED <<nvars, evars, ovars, xvars>>

\* Whether the exit path of each job calls genai.delete_file.

\* Variant: the delete sits in an error handler only.
AnalyzerCleanupOnErrorOnly(own, prim) == prim.kind = "raised"

\* analyze_video_gemini: "finally: genai.delete_file(video_file.name)".
AnalyzerCleanup(own, prim) == TRUE

\* Variant: the delete follows the work instead of sitting in "finally".
ThumbnailsCleanupAfterWork(own, prim) == own /\ prim.kind = "ok"

\* Variant: "finally: delete_file", whoever uploaded the file.
ThumbnailsCleanupUnowned(own, prim) == TRUE

\* select_and_extract_thumbnails: "finally: if own_upload: delete_file".
ThumbnailsCleanup(own, prim) == own

\* Variant: the own_upload test is forgotten.
TranscriptionCleanupAlways(own, prim) ==
  prim.kind = "ok" \/ IsException(prim.exc)

\* generate_transcription: "if own_upload: delete_file" in each
\* "except Exception" handler and after the output is saved.
TranscriptionCleanup(own, prim) ==
  own /\ (prim.kind = "ok" \/ IsException(prim.exc))

\* select_highlights has no delete_file call.
HighlightsCleanup(own, prim) == FALSE

Cleanup(j, own, prim) ==
  CASE j = "analyzer" -> AnalyzerCleanup(own, prim)
    [] j = "thumbnails" -> ThumbnailsCleanup(own, prim)
    [] j = "transcription" -> TranscriptionCleanup(own, prim)
    [] j = "highlights" -> HighlightsCleanup(own, prim)

\* What the job hands to its caller for the result of the guarded block:
\* try/finally lets it through; "except Exception: ... sys.exit(1)" turns an
\* Exception into exit status 1.
Delivered(j, prim) ==
  IF j \in {"transcription", "highlights"}
       /\ prim.kind = "raised" /\ IsException(prim.exc)
    THEN SystemExit1
    ELSE prim

\* Variant: the delete is not guarded, so its failure leaves the job.
AfterDeleteUnguarded(res, ok) ==
  IF ok THEN res ELSE Raised(Exc("DeleteError", NoHint, 0))

\* "try: genai.delete_file(...) except Exception: pass" (a warning in
\* generate_transcription): the result of the job is unchanged.
AfterDelete(res, ok) == res

\* The exit path of the job.
Teardown ==
  /\ pc = "teardown"
  /\ IF Cleanup(job, own_upload, primary)
       THEN \E ok \in BOOLEAN :
              /\ trace' = Append(trace, Call("delete_file", video_file.name, ok))
              /\ outcome' = AfterDelete(Delivered(job, primary), ok)
       ELSE /\ outcome' = Delivered(job, primary)
            /\ UNCHANGED trace
  /\ pc' = "done"
  /\ UNCHANGED <<job, file_id, interrupted, own_upload, video_file, polls, primary>>
  /\ UNCHANGED rvars
  /\ UNCHANGED <<nvars, evars, ovars, xvars>>

\* --------------------------------------------------------- specifications
NoFile == [name |-> "", state |-> "NONE"]

\* No highlight list is being worked on.
NormIdle ==
  /\ duration_seconds = 0
  /\ response = <<>>
  /\ items = <<>>
  /\ normalized = <<>>
  /\ renormalized = <<>>
  /\ npc = "idle"
  /\ tool = "none"
  /\ parses = TRUE
  /\ final_highlights = <<>>
  /\ candidates = <<>>
  /\ deduped = <<>>
  /\ max_edits = 0
  /\ guide = [edits |-> <<>>]
  /\ written = <<>>
  /\ nresult = Running

\* No estimate is being followed.
EtaIdle ==
  /\ eta_rule = "none"
  /\ clock = 0
  /\ est_total = 0
  /\ elapsed = 0
  /\ remaining = 0
  /\ revised = FALSE
  /\ ticks = 0
  /\ epc = "idle"

\* No upload with a heartbeat is running.
BeatIdle ==
  /\ hpc = "idle"
  /\ mpc = "idle"
  /\ stop_event = FALSE
  /\ now = 0
  /\ _last_t = 0
  /\ wake_at = 0
  /\ join_until = 0
  /\ stream = <<>>

\* No analysis is loaded in the corrector.
CorrectorIdle ==
  /\ analysis = [highlight_moments |-> <<>>, techniques |-> <<>>]
  /\ disk = analysis
  /\ modified = FALSE
  /\ cpc = "idle"
  /\ cmds = 0
  /\ asked = FALSE

\* The report of validate_analysis_timestamps before any check.
NewReport ==
  [valid |-> TRUE, warnings |-> <<>>, errors |-> <<>>,
   timestamp_count |-> 0, invalid_count |-> 0]

\* No analysis is loaded in the validator.
ValidatorIdle ==
  /\ analysis_json = [highlight_moments |-> <<>>, momentum_shifts |-> <<>>, techniques |-> <<>>]
  /\ video_duration_s = 0
  /\ report = NewReport
  /\ vpc = "idle"
  /\ exit_status = -1

\* None of the components added after the jobs is running.
XIdle == BeatIdle /\ CorrectorIdle /\ ValidatorIdle

\* The orchestrator is not running.
OrchIdle ==
  /\ opc = "idle"
  /\ gfile = NoFile
  /\ returned = <<>>
  /\ oresult = Running

\* _generate_with_retry is not running.
RetryIdle ==
  /\ max_retries = 0
  /\ backoff = DefaultBackoff
  /\ attempt = 0
  /\ delay = Max(MinInitialDelay, DefaultInitialDelay)
  /\ rpc = "idle"
  /\ rresult = Running
  /\ calls = 0
  /\ errors = <<>>
  /\ sleeps = <<>>

\* No job is running.
JobIdle ==
  /\ job = "none"
  /\ file_id = ""
  /\ pc = "idle"
  /\ own_upload = FALSE
  /\ video_file = NoFile
  /\ polls = 0
  /\ trace = <<>>
  /\ primary = Running
  /\ interrupted = "no"
  /\ outcome = Running

\* The wrapper called on its own, as tests/test_retry_logic.py does.
RetryInit ==
  /\ max_retries \in 0..MaxK
  /\ backoff \in {DefaultBackoff, 20}
  /\ attempt = 0
  /\ delay = Max(MinInitialDelay, DefaultInitialDelay)
  /\ rpc = "call"
  /\ rresult = Running
  /\ calls = 0
  /\ errors = <<>>
  /\ sleeps = <<>>
  /\ job = "none"
  /\ file_id = ""
  /\ pc = "generate"
  /\ own_upload = FALSE
  /\ video_file = NoFile
  /\ polls = 0
  /\ trace = <<>>
  /\ primary = Running
  /\ interrupted = "no"
  /\ outcome = Running
  /\ NormIdle
  /\ EtaIdle
  /\ OrchIdle
  /\ XIdle

RetryNext == GenCall \/ SleepReturn

SpecRetry == RetryInit /\ [][RetryNext]_vars

\* ------------------------------------- parse_and_validate, normalize_highlights
\* Video durations handed to both functions: 3 s, 20 s, 100 s.
Durations == {30, 200, 1000}

\* One entry of the list; id stands for its label and texts, numeric tells
\* whether float() accepts its two times.
RawItem(id, start, end, numeric) ==
  [id |-> id, start_seconds |-> start, end_seconds |-> end, numeric |-> numeric]

\* Python's seq[:n].
UpTo(seq, n) == SubSeq(seq, 1, Min(Len(seq), n))

\* Python's round(n / d) for d > 0: to the nearest integer, ties to even.
RoundHalfEven(n, d) ==
  LET q == n \div d
      r == n % d
  IN IF 2 * r < d THEN q
     ELSE IF 2 * r > d THEN q + 1
     ELSE IF q % 2 = 0 THEN q ELSE q + 1

\* _format_hms: whole seconds, never negative, as <<hours, minutes, seconds>>.
_format_hms(seconds) ==
  LET sec == Max(0, RoundHalfEven(seconds, 10))
  IN <<sec \div 3600, (sec % 3600) \div 60, sec % 60>>

\* Four instants at 1 s, 2.0 s, 2.1 s and 10 s, each 0.2 s long.
ScenarioA ==
  << [id |-> 1, start_seconds |-> 10, end_seconds |-> 12, numeric |-> TRUE],
     [id |-> 2, start_seconds |-> 20, end_seconds |-> 22, numeric |-> TRUE],
     [id |-> 3, start_seconds |-> 21, end_seconds |-> 23, numeric |-> TRUE],
     [id |-> 4, start_seconds |-> 100, end_seconds |-> 102, numeric |-> TRUE] >>

\* Variant: the times are taken as the model gave them.
ValidateItemUnclamped(raw, D) ==
  [id |-> raw.id, start_seconds |-> raw.start_seconds, end_seconds |-> raw.end_seconds]

\* The body of the per-item try of parse_and_validate: swap, clamp, and
\* repair of a length under 0.5 s.
ValidateItem(raw, D) ==
  LET s0 == IF raw.start_seconds > raw.end_seconds THEN raw.end_seconds ELSE raw.start_seconds
      e0 == IF raw.start_seconds > raw.end_seconds THEN raw.start_seconds ELSE raw.end_seconds
      start_s == Max(0, Min(s0, D))
      e1 == Max(start_s, Min(e0, D))
      end_s == IF e1 - start_s < MinParsedLength THEN Min(start_s + RepairLength, D) ELSE e1
  IN [id |-> raw.id, start_seconds |-> start_s, end_seconds |-> end_s]

\* parse_and_validate: entries whose times are not numbers are skipped.
parse_and_validate(data, D) ==
  LET kept == SelectSeq(data, LAMBDA raw : raw.numeric)
  IN [i \in 1..Len(kept) |-> ValidateItem(kept[i], D)]

\* Variant: the entries read before the text broke off are kept.
OnJSONDecodeErrorPartial(data, D) ==
  [items |-> parse_and_validate(data, D), result |-> Running]

\* "except json.JSONDecodeError: ... return []"
OnJSONDecodeError(data, D) == [items |-> <<>>, result |-> Running]

\* sorted() by start: x goes after every already sorted entry whose start
\* is not greater (the sort is stable).
RECURSIVE InsertionSort(_)
InsertionSort(its) ==
  IF its = <<>> THEN <<>>
  ELSE LET sorted == InsertionSort(SubSeq(its, 1, Len(its) - 1))
           x == its[Len(its)]
           k == Cardinality({i \in 1..Len(sorted) : sorted[i].start_seconds <= x.start_seconds})
       IN SubSeq(sorted, 1, k) \o <<x>> \o SubSeq(sorted, k + 1, Len(sorted))

\* Variant: the list is taken in the order the model gave it.
SortByStartSkipped(its) == its

\* sorted(items, key=lambda x: x["start_seconds"])
SortByStart(its) == InsertionSort(its)

\* Variant: the new end is measured from the old end.
AdjustEndFromEnd(start, end, D) ==
  IF end - start < MinLength \/ end - start > MaxLength
    THEN Min(end + RepairLength, D)
    ELSE end

\* "if duration < 4.5 or duration > 5.5: end = min(start + 5.0, duration_seconds)"
AdjustEnd(start, end, D) ==
  IF end - start < MinLength \/ end - start > MaxLength
    THEN Min(start + RepairLength, D)
    ELSE end

\* Variant: only intersecting segments count, the 2 s spacing is forgotten.
OverlapsNoSpacing(prev, start, end) ==
  start < prev.end_seconds /\ end > prev.start_seconds

\* Variant: the test against the accepted segments is missing.
OverlapsNever(prev, start, end) == FALSE

\* "if start < prev['end_seconds'] + 2.0 and end > prev['start_seconds'] - 2.0"
Overlaps(prev, start, end) ==
  start < prev.end_seconds + Spacing /\ end > prev.start_seconds - Spacing

\* The for loop of normalize_highlights over the sorted items.
RECURSIVE Accept(_, _, _)
Accept(sorted, D, acc) ==
  IF sorted = <<>> THEN acc
  ELSE LET item == Head(sorted)
           start == item.start_seconds
           end == AdjustEnd(start, item.end_seconds, D)
           overlap == \E k \in 1..Len(acc) : Overlaps(acc[k], start, end)
       IN Accept(Tail(sorted), D,
                 IF overlap THEN acc
                 ELSE Append(acc, [item EXCEPT !.end_seconds = end]))

\* Variant: "return normalized", the cap is forgotten.
normalize_highlights_uncapped(its, D) ==
  IF its = <<>> THEN <<>> ELSE Accept(SortByStart(its), D, <<>>)

normalize_highlights(its, D) ==
  IF its = <<>> THEN <<>>
  ELSE UpTo(Accept(SortByStart(its), D, <<>>), MaxHighlights)

\* compute_frames_and_hms: index from 1 in list order, frames by round().
compute_frames_and_hms(its, fps) ==
  [i \in 1..Len(its) |->
     [index |-> i,
      id |-> its[i].id,
      start_seconds |-> its[i].start_seconds,
      end_seconds |-> its[i].end_seconds,
      start_hms |-> _format_hms(its[i].start_seconds),
      end_hms |-> _format_hms(its[i].end_seconds),
      start_frame |-> RoundHalfEven(its[i].start_seconds * fps, 10),
      end_frame |-> RoundHalfEven(its[i].end_seconds * fps, 10)]]

\* What the actions on a highlights response leave alone.
HighlightsFrame == UNCHANGED <<duration_seconds, tool, candidates, deduped, max_edits, guide>>

\* The model's answer grows by one entry.  The (start_seconds, end_seconds)
\* pairs it may carry: instants, near-duplicates, in-range and over-long
\* spans, a negative start, a swapped pair, and spans reaching past the end
\* of the shorter videos.
Respond ==
  /\ npc = "respond"
  /\ tool = "highlights"
  /\ parses
  /\ Len(response) < MaxItems
  /\ \/ \E r \in { <<10, 12>>, <<20, 22>>, <<21, 23>>, <<100, 102>>, <<0, 50>>,
                    <<70, 120>>, <<69, 119>>, <<-20, 30>>, <<180, 110>>,
                    <<190, 260>>, <<60, 160>>, <<130, 180>> } :
          response' = Append(response, RawItem(Len(response) + 1, r[1], r[2], TRUE))
     \/ response' = Append(response, RawItem(Len(response) + 1, 0, 0, FALSE))
  /\ UNCHANGED <<items, normalized, renormalized, npc, parses, final_highlights, written, nresult>>
  /\ HighlightsFrame
  /\ UNCHANGED <<rvars, jvars, evars, ovars, xvars>>

\* The model answers with a whole list: the four instants, or a series of
\* n entries 5 s long whose starts are 6 s, 7 s or 9 s apart, listed in
\* ascending or in descending order of start.
RespondSeries ==
  /\ npc = "respond"
  /\ tool = "highlights"
  /\ parses
  /\ response = <<>>
  /\ \/ response' = ScenarioA
     \/ \E n \in (MaxHighlights + 1)..MaxSeries, stride \in {60, 70, 90}, descending \in BOOLEAN :
          response' = [i \in 1..n |->
                         LET k == IF descending THEN n - i ELSE i - 1
                         IN [id |-> i, start_seconds |-> k * stride,
                             end_seconds |-> k * stride + RepairLength, numeric |-> TRUE]]
  /\ UNCHANGED <<items, normalized, renormalized, npc, parses, final_highlights, written, nresult>>
  /\ HighlightsFrame
  /\ UNCHANGED <<rvars, jvars, evars, ovars, xvars>>

\* The text of the answer breaks off: json.loads will reject it.
Truncate ==
  /\ npc = "respond"
  /\ parses
  /\ parses' = FALSE
  /\ UNCHANGED <<duration_seconds, response, items, normalized, renormalized, npc, tool,
                 final_highlights, candidates, deduped, max_edits, guide, written, nresult>>
  /\ UNCHANGED <<rvars, jvars, evars, ovars, xvars>>

\* items = parse_and_validate(response.text, duration_seconds)
Parse ==
  /\ npc = "respond"
  /\ tool = "highlights"
  /\ LET r == IF parses
                THEN [items |-> parse_and_validate(response, duration_seconds), result |-> Running]
                ELSE OnJSONDecodeError(response, duration_seconds)
     IN /\ items' = r.items
        /\ nresult' = r.result
        /\ npc' = IF r.result = Running THEN "parsed" ELSE "written"
  /\ UNCHANGED <<response, normalized, renormalized, parses, final_highlights, written>>
  /\ HighlightsFrame
  /\ UNCHANGED <<rvars, jvars, evars, ovars, xvars>>

\* normalized = normalize_highlights(items, duration_seconds)
Normalize ==
  /\ npc = "parsed"
  /\ tool = "highlights"
  /\ normalized' = normalize_highlights(items, duration_seconds)
  /\ npc' = "normalized"
  /\ UNCHANGED <<response, items, renormalized, parses, final_highlights, written, nresult>>
  /\ HighlightsFrame
  /\ UNCHANGED <<rvars, jvars, evars, ovars, xvars>>

\* normalize_highlights applied to its own result.
NormalizeAgain ==
  /\ npc = "normalized"
  /\ renormalized' = normalize_highlights(normalized, duration_seconds)
  /\ npc' = "renormalized"
  /\ UNCHANGED <<response, items, normalized, parses, final_highlights, written, nresult>>
  /\ HighlightsFrame
  /\ UNCHANGED <<rvars, jvars, evars, ovars, xvars>>

\* final_highlights = compute_frames_and_hms(normalized, fps)
Derive ==
  /\ npc = "normalized"
  /\ \E fps \in {24, 30} : final_highlights' = compute_frames_and_hms(normalized, fps)
  /\ npc' = "derived"
  /\ UNCHANGED <<response, items, normalized, renormalized, parses, written, nresult>>
  /\ HighlightsFrame
  /\ UNCHANGED <<rvars, jvars, evars, ovars, xvars>>

\* write_output(video_meta, final_highlights, highlights_json), and the
\* function returns.
WriteOutput ==
  /\ npc = "derived"
  /\ written' = final_highlights
  /\ nresult' = Returned
  /\ npc' = "written"
  /\ UNCHANGED <<response, items, normalized, renormalized, parses, final_highlights>>
  /\ HighlightsFrame
  /\ UNCHANGED <<rvars, jvars, evars, ovars, xvars>>

\* ------------------------------------------- thumbnails: candidates, dedupe
\* One entry of the "thumbnails" list: form tells which of its fields carries
\* the time ("seconds": timestamp_seconds, a number; "hms": timestamp_hms, as
\* <<hours, minutes, seconds>>; "none": neither).
RawThumb(id, form, seconds, hms) ==
  [id |-> id, form |-> form, timestamp_seconds |-> seconds, timestamp_hms |-> hms]

\* The response of tests/test_gemini_thumbnails.py: 1, "00:00:02", 2.1, 10.
TestThumbs ==
  << RawThumb(1, "seconds", 10, <<0, 0, 0>>), RawThumb(2, "hms", 0, <<0, 0, 2>>),
     RawThumb(3, "seconds", 21, <<0, 0, 0>>), RawThumb(4, "seconds", 100, <<0, 0, 0>>) >>

\* _parse_time_to_seconds of the field that carries the time.
_parse_time_to_seconds(raw) ==
  IF raw.form = "seconds" THEN raw.timestamp_seconds
  ELSE (raw.timestamp_hms[1] * 3600 + raw.timestamp_hms[2] * 60 + raw.timestamp_hms[3]) * 10

\* sorted(candidates, key=lambda x: x["timestamp_seconds"])
RECURSIVE SortByTime(_)
SortByTime(cs) ==
  IF cs = <<>> THEN <<>>
  ELSE LET sorted == SortByTime(SubSeq(cs, 1, Len(cs) - 1))
           x == cs[Len(cs)]
           k == Cardinality({i \in 1..Len(sorted) :
                               sorted[i].timestamp_seconds <= x.timestamp_seconds})
       IN SubSeq(sorted, 1, k) \o <<x>> \o SubSeq(sorted, k + 1, Len(sorted))

\* Variant: the exact time is the key, "sec = c['timestamp_seconds']".
SecondOfExact(c) == c.timestamp_seconds

\* "sec = int(round(c['timestamp_seconds']))"
SecondOf(c) == RoundHalfEven(c.timestamp_seconds, 10)

\* Variant: the seen_secs test is missing and every candidate is kept.
DedupeLoopKeepAll(sorted, seen_secs, acc) == sorted

\* The loop over the sorted candidates with its seen_secs set.
RECURSIVE DedupeLoop(_, _, _)
DedupeLoop(sorted, seen_secs, acc) ==
  IF sorted = <<>> THEN acc
  ELSE LET c == Head(sorted)
       IN IF SecondOf(c) \in seen_secs
            THEN DedupeLoop(Tail(sorted), seen_secs, acc)
            ELSE DedupeLoop(Tail(sorted), seen_secs \cup {SecondOf(c)}, Append(acc, c))

\* What the actions on a thumbnails response leave alone.
ThumbsFrame ==
  UNCHANGED <<duration_seconds, tool, items, normalized, renormalized, final_highlights,
              max_edits, guide>>

\* The model's answer grows by one entry.  The times it may carry: 1 s, 2 s
\* as "00:00:02", 2.1 s, 10 s, the ties 1.5 s and 2.5 s, 2.4 s, 2.6 s,
\* "00:01:05", and an entry with no time.
RespondThumb ==
  /\ npc = "respond"
  /\ tool = "thumbnails"
  /\ parses
  /\ Len(response) < MaxItems
  /\ \E r \in { <<"seconds", 10, <<0, 0, 0>> >>, <<"hms", 0, <<0, 0, 2>> >>,
                 <<"seconds", 21, <<0, 0, 0>> >>, <<"seconds", 100, <<0, 0, 0>> >>,
                 <<"seconds", 15, <<0, 0, 0>> >>, <<"seconds", 25, <<0, 0, 0>> >>,
                 <<"seconds", 24, <<0, 0, 0>> >>, <<"seconds", 26, <<0, 0, 0>> >>,
                 <<"hms", 0, <<0, 1, 5>> >>, <<"none", 0, <<0, 0, 0>> >> } :
       response' = Append(response, RawThumb(Len(response) + 1, r[1], r[2], r[3]))
  /\ UNCHANGED <<npc, parses, candidates, deduped, written, nresult>>
  /\ ThumbsFrame
  /\ UNCHANGED <<rvars, jvars, evars, ovars, xvars>>

\* The model answers with a whole series of times, 0.4 s, 1 s or 1.5 s
\* apart.
RespondThumbSeries ==
  /\ npc = "respond"
  /\ tool = "thumbnails"
  /\ parses
  /\ response = <<>>
  /\ \/ response' = TestThumbs
     \/ \E n \in (MaxThumbnails + 1)..MaxSeries, stride \in {4, 10, 15}, descending \in BOOLEAN :
          response' = [i \in 1..n |->
                         LET k == IF descending THEN n - i ELSE i - 1
                         IN RawThumb(i, "seconds", k * stride, <<0, 0, 0>>)]
  /\ UNCHANGED <<npc, parses, candidates, deduped, written, nresult>>
  /\ ThumbsFrame
  /\ UNCHANGED <<rvars, jvars, evars, ovars, xvars>>

\* json.loads of the answer (payload stays None when it fails) and the loop
\* that fills candidates: entries without a readable time are skipped.
ParseThumbs ==
  /\ npc = "respond"
  /\ tool = "thumbnails"
  /\ candidates' =
       IF parses
         THEN LET kept == SelectSeq(response, LAMBDA raw : raw.form # "none")
              IN [i \in 1..Len(kept) |->
                    [id |-> kept[i].id,
                     timestamp_seconds |-> _parse_time_to_seconds(kept[i]),
                     timestamp_hms |-> _format_hms(_parse_time_to_seconds(kept[i]))]]
         ELSE <<>>
  /\ npc' = "parsed"
  /\ UNCHANGED <<response, parses, deduped, written, nresult>>
  /\ ThumbsFrame
  /\ UNCHANGED <<rvars, jvars, evars, ovars, xvars>>

\* The dedupe block, with its cap.
Dedupe ==
  /\ npc = "parsed"
  /\ tool = "thumbnails"
  /\ deduped' = UpTo(DedupeLoop(SortByTime(candidates), {}, <<>>), MaxThumbnails)
  /\ npc' = "deduped"
  /\ UNCHANGED <<response, parses, candidates, written, nresult>>
  /\ ThumbsFrame
  /\ UNCHANGED <<rvars, jvars, evars, ovars, xvars>>

\* json.dump({"thumbnails": deduped}, jf)
WriteThumbs ==
  /\ npc = "deduped"
  /\ written' = deduped
  /\ nresult' = Returned
  /\ npc' = "written"
  /\ UNCHANGED <<response, parses, candidates, deduped>>
  /\ ThumbsFrame
  /\ UNCHANGED <<rvars, jvars, evars, ovars, xvars>>

\* ------------------------------------ editing guide: parse_and_validate_json
\* _parse_hhmmss of a three-part timecode.
_parse_hhmmss(hhmmss) == (hhmmss[1] * 3600 + hhmmss[2] * 60 + hhmmss[3]) * 10

\* _human_time: whole seconds, never negative, as <<hours, minutes, seconds>>.
_human_time(seconds) ==
  LET sec == Max(0, RoundHalfEven(seconds, 10))
  IN <<sec \div 3600, (sec % 3600) \div 60, sec % 60>>

\* The body of the per-edit try: default end, clamp, and the test that skips
\* an empty range or one starting at the end of the video (ok = FALSE).
ValidateEdit(edit, D) ==
  LET s0 == _parse_hhmmss(edit.start)
      e0 == _parse_hhmmss(edit.end)
      e1 == IF e0 <= s0 THEN s0 + DefaultEditLength ELSE e0
      start_s == Max(0, Min(s0, D))
      end_s == Max(start_s, Min(e1, D))
  IN [ok |-> ~(start_s >= end_s \/ start_s >= D),
      id |-> edit.id,
      start |-> _human_time(start_s),
      end |-> _human_time(end_s)]

\* valid_edits.sort(key=lambda e: _parse_hhmmss(e["start"]))
RECURSIVE SortByTimecode(_)
SortByTimecode(es) ==
  IF es = <<>> THEN <<>>
  ELSE LET sorted == SortByTimecode(SubSeq(es, 1, Len(es) - 1))
           x == es[Len(es)]
           k == Cardinality({i \in 1..Len(sorted) :
                               _parse_hhmmss(sorted[i].start) <= _parse_hhmmss(x.start)})
       IN SubSeq(sorted, 1, k) \o <<x>> \o SubSeq(sorted, k + 1, Len(sorted))

\* parse_and_validate_json on a text json.loads accepts: the loop runs over
\* data["edits"][:max_edits], and what it kept is sorted.
parse_and_validate_json(data, D, cap) ==
  LET listed == UpTo(data, cap)
      checked == [i \in 1..Len(listed) |-> ValidateEdit(listed[i], D)]
      kept == SelectSeq(checked, LAMBDA e : e.ok)
      valid_edits == [i \in 1..Len(kept) |->
                        [id |-> kept[i].id, start |-> kept[i].start, end |-> kept[i].end]]
  IN [edits |-> SortByTimecode(valid_edits)]

\* What the actions on an editing-guide response leave alone.
GuideFrame ==
  UNCHANGED <<duration_seconds, tool, max_edits, items, normalized, renormalized,
              final_highlights, candidates, deduped>>

\* The model's answer grows by one entry of the "edits" list; start and end
\* are "HH:MM:SS" timecodes, held as <<hours, minutes, seconds>>.  The
\* (start, end) a response may carry: 10-12 s, 5-8 s, an instant at 2 s,
\* 50-60 s, 0-3 s, 15-25 s, 1:05-1:10 written with 65 and 70 seconds, and
\* 20-22 s.
RespondEdit ==
  /\ npc = "respond"
  /\ tool = "guide"
  /\ parses
  /\ Len(response) < MaxItems
  /\ \E r \in { << <<0, 0, 10>>, <<0, 0, 12>> >>, << <<0, 0, 5>>, <<0, 0, 8>> >>,
                 << <<0, 0, 2>>, <<0, 0, 2>> >>, << <<0, 0, 50>>, <<0, 1, 0>> >>,
                 << <<0, 0, 0>>, <<0, 0, 3>> >>, << <<0, 0, 15>>, <<0, 0, 25>> >>,
                 << <<0, 0, 65>>, <<0, 0, 70>> >>, << <<0, 0, 20>>, <<0, 0, 22>> >> } :
       response' = Append(response, [id |-> Len(response) + 1, start |-> r[1], end |-> r[2]])
  /\ UNCHANGED <<npc, parses, guide, written, nresult>>
  /\ GuideFrame
  /\ UNCHANGED <<rvars, jvars, evars, ovars, xvars>>

\* data = parse_and_validate_json(raw_response, duration_seconds, args.max_edits);
\* on JSONDecodeError it returns a guide with "edits": [].
ParseGuide ==
  /\ npc = "respond"
  /\ tool = "guide"
  /\ guide' = IF parses
                THEN parse_and_validate_json(response, duration_seconds, max_edits)
                ELSE [edits |-> <<>>]
  /\ npc' = "parsed"
  /\ UNCHANGED <<response, parses, written, nresult>>
  /\ GuideFrame
  /\ UNCHANGED <<rvars, jvars, evars, ovars, xvars>>

\* json.dump(data, f) and the rest of main.
WriteGuide ==
  /\ npc = "parsed"
  /\ tool = "guide"
  /\ written' = guide.edits
  /\ nresult' = Returned
  /\ npc' = "written"
  /\ UNCHANGED <<response, parses, guide>>
  /\ GuideFrame
  /\ UNCHANGED <<rvars, jvars, evars, ovars, xvars>>

\* The functions that work on a response, called on their own.  The
\* editing guide gets its duration from ffprobe, whole seconds or not
\* (20.4 s, 20.6 s).
NormInit ==
  /\ RetryIdle
  /\ JobIdle
  /\ EtaIdle
  /\ OrchIdle
  /\ XIdle
  /\ tool \in {"highlights", "thumbnails", "guide"}
  /\ duration_seconds \in (CASE tool = "thumbnails" -> {0}
                                [] tool = "guide" -> Durations \cup {204, 206}
                                [] OTHER -> Durations)
  /\ response = <<>>
  /\ items = <<>>
  /\ normalized = <<>>
  /\ renormalized = <<>>
  /\ npc = "respond"
  /\ parses = TRUE
  /\ final_highlights = <<>>
  /\ candidates = <<>>
  /\ deduped = <<>>
  /\ max_edits \in (IF tool = "guide" THEN {1, 2} ELSE {0})
  /\ guide = [edits |-> <<>>]
  /\ written = <<>>
  /\ nresult = Running

NormNext ==
  \/ Respond
  \/ RespondSeries
  \/ Truncate
  \/ Parse
  \/ Normalize
  \/ NormalizeAgain
  \/ Derive
  \/ WriteOutput
  \/ RespondThumb
  \/ RespondThumbSeries
  \/ ParseThumbs
  \/ Dedupe
  \/ WriteThumbs
  \/ RespondEdit
  \/ ParseGuide
  \/ WriteGuide

SpecNorm == NormInit /\ [][NormNext]_vars

\* ---------------------------------------- the processing-time estimate
\* initial_processing_estimate, in ms.
initial_processing_estimate(size_mb, upload_duration) ==
  LET guess_by_size == Max(30000, Min(1800000, 30000 + 800 * size_mb))
      guess_by_upload == Max(20000, Min(1800000, (5 * upload_duration) \div 2))
  IN (guess_by_size + guess_by_upload) \div 2

\* Variant: the transcription loop multiplies, "est_total = elapsed_proc * 0.7".
ReviseShrinking(rule, est, el) ==
  IF rule = "max" THEN Max(est, (el * 5) \div 4) ELSE (el * 7) \div 10

\* The assignment under "if elapsed >= est_total * 0.9": max(est_total,
\* elapsed * 1.25) in analyzer, thumbnails and highlights, elapsed / 0.7 in
\* transcription.
Revise(rule, est, el) ==
  IF rule = "max" THEN Max(est, (el * 5) \div 4) ELSE (el * 10) \div 7

\* Variant: the estimate is revised only once elapsed has passed it.
DueLate(est, el) == el >= est

\* "if elapsed >= est_total * 0.9"
Due(est, el) == 10 * el >= 9 * est

\* One iteration of the polling loop: read the clock, revise the estimate,
\* compute the time remaining, sleep and poll; the file is then still
\* PROCESSING or the loop ends.
EtaIteration ==
  /\ epc = "loop"
  /\ ticks < MaxTicks
  /\ ticks' = ticks + 1
  /\ elapsed' = clock
  /\ revised' = Due(est_total, clock)
  /\ est_total' = IF Due(est_total, clock) THEN Revise(eta_rule, est_total, clock) ELSE est_total
  /\ remaining' = Max(0, est_total' - clock)
  \* the sleep of the loop plus the get_file call, which may take long (ms)
  /\ \E step \in {1000, 24000, 100000} : clock' = clock + step
  /\ epc' \in {"loop", "done"}
  /\ UNCHANGED eta_rule
  /\ UNCHANGED <<rvars, jvars, nvars, ovars, xvars>>

\* A polling loop followed on its own, from the estimate it starts with.
EtaInit ==
  /\ RetryIdle
  /\ JobIdle
  /\ NormIdle
  /\ OrchIdle
  /\ XIdle
  /\ eta_rule \in {"max", "div"}
  /\ clock = 0
  \* file sizes in MB, upload durations in ms (0: an existing file is used)
  /\ \E size_mb \in {0, 50, 500}, upload_duration \in {0, 10000, 60000} :
       est_total = initial_processing_estimate(size_mb, upload_duration)
  /\ elapsed = 0
  /\ remaining = 0
  /\ revised = FALSE
  /\ ticks = 0
  /\ epc = "loop"

EtaNext == EtaIteration

SpecEta == EtaInit /\ [][EtaNext]_vars

\* ------------------------------------------------ gemini_orchestrator.main
\* The scripts main runs, in order, each with --model and --file-id.
SubProcessors == <<"analyzer", "thumbnails", "guide">>

\* The finally clause of the upload in main: it stops the heartbeat and
\* ends with println(f"Uploaded: {gfile.name}"); when upload_file raised,
\* gfile is unbound and that statement raises UnboundLocalError in place
\* of the exception on its way out.
UploadFinally(res, bound) ==
  IF bound THEN res ELSE Raised(Exc("UnboundLocalError", NoHint, 0))

\* The upload: one upload_file call in try/finally; main has no except
\* clause for it.
OrchUpload ==
  /\ opc = "upload"
  /\ \/ \E st \in RemoteStates :
          /\ gfile' = [name |-> UploadedName, state |-> st]
          /\ trace' = Append(trace, Call("upload_file", UploadedName, TRUE))
          /\ opc' = "poll"
          /\ oresult' = UploadFinally(oresult, TRUE)
     \/ \E t \in UploadFailureTypes :
          /\ trace' = Append(trace, Call("upload_file", "", FALSE))
          /\ opc' = "raised"
          /\ oresult' = UploadFinally(Raised(Exc(t, NoHint, 0)), FALSE)
          /\ UNCHANGED gfile
  /\ UNCHANGED returned
  /\ UNCHANGED <<job, file_id, pc, own_upload, video_file, polls, primary, interrupted, outcome>>
  /\ UNCHANGED <<rvars, nvars, evars, xvars>>

\* The body of "while gfile.state.name == 'PROCESSING'": sleep, get_file.
OrchPollGet ==
  /\ opc = "poll"
  /\ gfile.state = "PROCESSING"
  /\ \/ \E st \in RemoteStates :
          /\ gfile' = [name |-> gfile.name, state |-> st]
          /\ trace' = IF Len(SelectSeq(trace, LAMBDA c : c.op = "get_file")) < MaxPolls
                         THEN Append(trace, Call("get_file", gfile.name, TRUE))
                         ELSE trace
          /\ UNCHANGED <<opc, oresult>>
     \/ /\ trace' = Append(trace, Call("get_file", gfile.name, FALSE))
        /\ opc' = "raised"
        /\ oresult' = Raised(Exc("PollError", NoHint, 0))
        /\ UNCHANGED gfile
  /\ UNCHANGED returned
  /\ UNCHANGED <<job, file_id, pc, own_upload, video_file, polls, primary, interrupted, outcome>>
  /\ UNCHANGED <<rvars, nvars, evars, xvars>>

\* The loop has ended: sys.exit(1) on FAILED, else on to the processors.
OrchProcessed ==
  /\ opc = "poll"
  /\ gfile.state # "PROCESSING"
  /\ opc' = IF gfile.state = "FAILED" THEN "exit" ELSE "run"
  /\ oresult' = IF gfile.state = "FAILED" THEN SystemExit1 ELSE oresult
  /\ UNCHANGED <<gfile, returned>>
  /\ UNCHANGED <<rvars, jvars, nvars, evars, xvars>>

\* subprocess.run(cmd) of the next script: gemini_thumbnails.py, whose
\* argument parser declares --file-id and --model, starts its job on the
\* shared file; the parser of the other two rejects the command line and
\* the script exits at once.
RunSub ==
  /\ opc = "run"
  /\ Len(returned) < Len(SubProcessors)
  /\ LET name == SubProcessors[Len(returned) + 1]
     IN IF name = "thumbnails"
          THEN /\ job' = name
               /\ file_id' = gfile.name
               /\ pc' = "start"
               /\ own_upload' = TRUE
               /\ video_file' = NoFile
               /\ polls' = 0
               /\ primary' = Running
               /\ interrupted' = "no"
               /\ outcome' = Running
               /\ opc' = "wait"
               /\ UNCHANGED returned
          ELSE /\ returned' = Append(returned, name)
               /\ UNCHANGED opc
               /\ UNCHANGED <<job, file_id, pc, own_upload, video_file, polls, primary,
                              interrupted, outcome>>
  /\ UNCHANGED <<gfile, trace, oresult>>
  /\ UNCHANGED <<rvars, nvars, evars, xvars>>

\* subprocess.run returns when the script has ended (check=False: however
\* it ended).
SubReturned ==
  /\ opc = "wait"
  /\ pc = "done"
  /\ returned' = Append(returned, job)
  /\ opc' = "run"
  /\ UNCHANGED <<gfile, oresult>>
  /\ UNCHANGED <<rvars, jvars, nvars, evars, xvars>>

\* "Cleanup uploaded file": delete_file in try / except Exception: pass.
OrchCleanup ==
  /\ opc = "run"
  /\ Len(returned) = Len(SubProcessors)
  /\ \E ok \in BOOLEAN : trace' = Append(trace, Call("delete_file", gfile.name, ok))
  /\ opc' = "done"
  /\ oresult' = Returned
  /\ UNCHANGED <<gfile, returned>>
  /\ UNCHANGED <<job, file_id, pc, own_upload, video_file, polls, primary, interrupted, outcome>>
  /\ UNCHANGED <<rvars, nvars, evars, xvars>>

\* One run of the orchestrator.
OrchInit ==
  /\ RetryIdle
  /\ JobIdle
  /\ NormIdle
  /\ EtaIdle
  /\ opc = "upload"
  /\ gfile = NoFile
  /\ returned = <<>>
  /\ oresult = Running
  /\ XIdle

OrchNext ==
  \/ OrchUpload
  \/ OrchPollGet
  \/ OrchProcessed
  \/ RunSub
  \/ SubReturned
  \/ OrchCleanup
  \/ GetExisting
  \/ PollTest
  \/ PollGet
  \/ InterruptPoll
  \/ GenCall
  \/ SleepReturn
  \/ InterruptBackoff
  \/ GenDone
  \/ Post
  \/ Teardown

SpecOrch == OrchInit /\ [][OrchNext]_vars

\* ------------------------------------------------- the upload heartbeat
\* ProgressPrinter(min_interval=0.25), time.sleep(1.0) in _heartbeat and
\* hb_thread.join(timeout=1.0), in quarters of a second.
MinInterval == 1
BeatSleep == 4
JoinTimeout == 4

\* What the actions of the two threads leave alone.
BeatFrame == UNCHANGED <<rvars, jvars, nvars, evars, ovars, cvars, vvars>>

\* Time passes; neither thread is bound to run at any particular moment.
BeatTick ==
  /\ hpc # "idle"
  /\ mpc # "done" \/ hpc # "exit"
  /\ now < MaxClock
  /\ now' = now + 1
  /\ UNCHANGED <<hpc, mpc, stop_event, _last_t, wake_at, join_until, stream>>
  /\ BeatFrame

\* _heartbeat: "while not stop_event.is_set()".
HbTest ==
  /\ hpc = "test"
  /\ hpc' = IF stop_event THEN "exit" ELSE "update"
  /\ UNCHANGED <<mpc, stop_event, now, _last_t, wake_at, join_until, stream>>
  /\ BeatFrame

\* update_line up to its write: an update less than min_interval after the
\* last output returns at once, and the thread goes to sleep.
HbUpdate ==
  /\ hpc = "update"
  /\ IF now - _last_t < MinInterval
       THEN /\ hpc' = "sleep"
            /\ wake_at' = now + BeatSleep
            /\ UNCHANGED _last_t
       ELSE /\ hpc' = "write"
            /\ _last_t' = now
            /\ UNCHANGED wake_at
  /\ UNCHANGED <<mpc, stop_event, now, join_until, stream>>
  /\ BeatFrame

\* stream.write of the "Uploading..." line, then time.sleep(1.0) begins.
HbWrite ==
  /\ hpc = "write"
  /\ stream' = Append(stream, "Uploading")
  /\ hpc' = "sleep"
  /\ wake_at' = now + BeatSleep
  /\ UNCHANGED <<mpc, stop_event, now, _last_t, join_until>>
  /\ BeatFrame

\* time.sleep(1.0) is over.
HbWake ==
  /\ hpc = "sleep"
  /\ now >= wake_at
  /\ hpc' = "test"
  /\ UNCHANGED <<mpc, stop_event, now, _last_t, wake_at, join_until, stream>>
  /\ BeatFrame

\* genai.upload_file returns or raises; the finally clause follows.
UploadEnds ==
  /\ mpc = "upload"
  /\ mpc' = "set"
  /\ UNCHANGED <<hpc, stop_event, now, _last_t, wake_at, join_until, stream>>
  /\ BeatFrame

\* stop_event.set(); hb_thread.join(timeout=1.0) begins.
SetStop ==
  /\ mpc = "set"
  /\ stop_event' = TRUE
  /\ join_until' = now + JoinTimeout
  /\ mpc' = "join"
  /\ UNCHANGED <<hpc, now, _last_t, wake_at, stream>>
  /\ BeatFrame

\* join(timeout) returns when the thread has ended or the timeout is over.
JoinReturns ==
  /\ mpc = "join"
  /\ (hpc = "exit" \/ now >= join_until)
  /\ mpc' = "println"
  /\ UNCHANGED <<hpc, stop_event, now, _last_t, wake_at, join_until, stream>>
  /\ BeatFrame

\* printer.println("Upload complete in ...")
PrintComplete ==
  /\ mpc = "println"
  /\ stream' = Append(stream, "Upload complete")
  /\ _last_t' = now
  /\ mpc' = "done"
  /\ UNCHANGED <<hpc, stop_event, now, wake_at, join_until>>
  /\ BeatFrame

\* The heartbeat thread has been started and upload_file is running.
BeatInit ==
  /\ RetryIdle
  /\ JobIdle
  /\ NormIdle
  /\ EtaIdle
  /\ OrchIdle
  /\ hpc = "test"
  /\ mpc = "upload"
  /\ stop_event = FALSE
  /\ now = 0
  /\ _last_t = 0
  /\ wake_at = 0
  /\ join_until = 0
  /\ stream = <<>>
  /\ CorrectorIdle
  /\ ValidatorIdle

BeatNext ==
  \/ BeatTick
  \/ HbTest
  \/ HbUpdate
  \/ HbWrite
  \/ HbWake
  \/ UploadEnds
  \/ SetStop
  \/ JoinReturns
  \/ PrintComplete

SpecBeat == BeatInit /\ [][BeatNext]_vars

\* ------------------------------ timestamp_corrector.interactive_mode
\* What the user types at a time prompt: nothing, "5.7", "0:09", "700", or
\* a text that is no time.
TimeInputs ==
  { [form |-> "empty", a |-> 0, b |-> 0],
    [form |-> "seconds", a |-> 57, b |-> 0],
    [form |-> "mmss", a |-> 0, b |-> 9],
    [form |-> "seconds", a |-> 7000, b |-> 0],
    [form |-> "bad", a |-> 0, b |-> 0] }

\* parse_time_input: float(text), else MM:SS, else None; the value in
\* tenths of a second.
parse_time_input(inp) ==
  CASE inp.form = "seconds" -> [ok |-> TRUE, tenths |-> inp.a]
    [] inp.form = "mmss" -> [ok |-> TRUE, tenths |-> (inp.a * 60 + inp.b) * 10]
    [] OTHER -> [ok |-> FALSE, tenths |-> 0]

\* list[idx] of Python for a list of n entries: 0 when "idx >= len" turns
\* the command down or the index raises IndexError, else the position.
Position(idx, n) ==
  IF idx >= n THEN 0
  ELSE IF idx >= 0 THEN idx + 1
  ELSE IF n + idx >= 0 THEN n + idx + 1
  ELSE 0

\* correct_highlight_moment on one moment: the two prompts in order, each
\* assignment made as soon as its input is accepted; a time outside
\* 0..video_duration + 5 needs the confirmation, and int() cuts the tenths.
correct_highlight_moment(moment, in1, in2, confirm, D) ==
  LET t1 == parse_time_input(in1)
      t2 == parse_time_input(in2)
      stop1 == in1.form # "empty"
                 /\ (~t1.ok \/ ((t1.tenths < 0 \/ t1.tenths > (D + 5) * 10) /\ ~confirm))
      m1 == IF in1.form # "empty" /\ ~stop1
              THEN [moment EXCEPT !.time_s = t1.tenths \div 10]
              ELSE moment
      stop2 == in2.form # "empty" /\ ~t2.ok
      m2 == IF in2.form # "empty" /\ ~stop2
              THEN [m1 EXCEPT !.suggested_thumbnail_time_s = t2.tenths \div 10]
              ELSE m1
  IN IF stop1 THEN [entry |-> moment, result |-> FALSE]
     ELSE IF stop2 THEN [entry |-> m1, result |-> FALSE]
     ELSE [entry |-> m2, result |-> TRUE]

\* correct_technique on one technique.
correct_technique(tech, in1, in2) ==
  LET t1 == parse_time_input(in1)
      t2 == parse_time_input(in2)
      stop1 == in1.form # "empty" /\ ~t1.ok
      m1 == IF in1.form # "empty" /\ ~stop1
              THEN [tech EXCEPT !.start_s = t1.tenths \div 10]
              ELSE tech
      stop2 == in2.form # "empty" /\ ~t2.ok
      m2 == IF in2.form # "empty" /\ ~stop2
              THEN [m1 EXCEPT !.end_s = t2.tenths \div 10]
              ELSE m1
  IN IF stop1 THEN [entry |-> tech, result |-> FALSE]
     ELSE IF stop2 THEN [entry |-> m1, result |-> FALSE]
     ELSE [entry |-> m2, result |-> TRUE]

\* What the commands of the corrector leave alone.
CorrectorFrame == UNCHANGED <<rvars, jvars, nvars, evars, ovars, hvars, vvars>>

\* "h", "t", "m" and unknown commands.
CmdShow ==
  /\ cpc = "loop"
  /\ cmds < MaxCmds
  /\ cmds' = cmds + 1
  /\ UNCHANGED <<analysis, disk, modified, cpc, asked>>
  /\ CorrectorFrame

\* "ch <index>", with a --video-duration of 10 s.
CmdCorrectHighlight ==
  /\ cpc = "loop"
  /\ cmds < MaxCmds
  /\ cmds' = cmds + 1
  /\ \E idx \in {-1, 0, 1}, in1 \in TimeInputs, in2 \in TimeInputs,
        confirm \in BOOLEAN, D \in {10} :
       LET k == Position(idx, Len(analysis.highlight_moments))
       IN IF k = 0
            THEN UNCHANGED <<analysis, modified>>
            ELSE LET r == correct_highlight_moment(analysis.highlight_moments[k],
                                                   in1, in2, confirm, D)
                 IN /\ analysis' = [analysis EXCEPT !.highlight_moments[k] = r.entry]
                    /\ modified' = (modified \/ r.result)
  /\ UNCHANGED <<disk, cpc, asked>>
  /\ CorrectorFrame

\* "ct <index>"
CmdCorrectTechnique ==
  /\ cpc = "loop"
  /\ cmds < MaxCmds
  /\ cmds' = cmds + 1
  /\ \E idx \in {-1, 0, 1}, in1 \in TimeInputs, in2 \in TimeInputs :
       LET k == Position(idx, Len(analysis.techniques))
       IN IF k = 0
            THEN UNCHANGED <<analysis, modified>>
            ELSE LET r == correct_technique(analysis.techniques[k], in1, in2)
                 IN /\ analysis' = [analysis EXCEPT !.techniques[k] = r.entry]
                    /\ modified' = (modified \/ r.result)
  /\ UNCHANGED <<disk, cpc, asked>>
  /\ CorrectorFrame

\* "s": the file is written only when modified is set.
CmdSave ==
  /\ cpc = "loop"
  /\ cmds < MaxCmds
  /\ cmds' = cmds + 1
  /\ disk' = IF modified THEN analysis ELSE disk
  /\ modified' = FALSE
  /\ UNCHANGED <<analysis, cpc, asked>>
  /\ CorrectorFrame

\* "q": the save prompt appears only when modified is set.
CmdQuit ==
  /\ cpc = "loop"
  /\ \E save \in BOOLEAN :
       /\ asked' = modified
       /\ disk' = IF modified /\ save THEN analysis ELSE disk
  /\ cpc' = "done"
  /\ UNCHANGED <<analysis, modified, cmds>>
  /\ CorrectorFrame

\* interactive_mode has loaded the file: one highlight moment, one technique.
CorrectorInit ==
  /\ RetryIdle
  /\ JobIdle
  /\ NormIdle
  /\ EtaIdle
  /\ OrchIdle
  /\ BeatIdle
  /\ ValidatorIdle
  /\ analysis = [highlight_moments |-> <<[time_s |-> 3, suggested_thumbnail_time_s |-> 4]>>,
                  techniques |-> <<[start_s |-> 1, end_s |-> 2]>>]
  /\ disk = analysis
  /\ modified = FALSE
  /\ cpc = "loop"
  /\ cmds = 0
  /\ asked = FALSE

CorrectorNext ==
  \/ CmdShow
  \/ CmdCorrectHighlight
  \/ CmdCorrectTechnique
  \/ CmdSave
  \/ CmdQuit

SpecCorrector == CorrectorInit /\ [][CorrectorNext]_vars

\* ------------------------------------------ timestamp_validator.main
\* margin_s of validate_timestamp_range, in seconds.
Margin == 5
\* min_spacing_s given for the highlight moments, in seconds.
HighlightSpacing == 20
\* A timestamp of the JSON is <<>> for a missing or null field and <<t>>
\* for t seconds.
Moments ==
  { [time_s |-> <<>>, suggested_thumbnail_time_s |-> <<>>],
    [time_s |-> <<-1>>, suggested_thumbnail_time_s |-> <<5>>],
    [time_s |-> <<0>>, suggested_thumbnail_time_s |-> <<>>],
    [time_s |-> <<10>>, suggested_thumbnail_time_s |-> <<100>>],
    [time_s |-> <<30>>, suggested_thumbnail_time_s |-> <<5>>],
    [time_s |-> <<60>>, suggested_thumbnail_time_s |-> <<5>>],
    [time_s |-> <<100>>, suggested_thumbnail_time_s |-> <<5>>] }

\* Entries of momentum_shifts and of techniques.
Spans ==
  { [start_s |-> <<>>, end_s |-> <<>>],
    [start_s |-> <<0>>, end_s |-> <<10>>],
    [start_s |-> <<10>>, end_s |-> <<0>>],
    [start_s |-> <<50>>, end_s |-> <<100>>] }

\* validate_timestamp_range: is_valid.
validate_timestamp_range(timestamp_s, duration_s) ==
  /\ ~(timestamp_s < 0)
  /\ ~(timestamp_s > duration_s + Margin)

\* The times of sorted(enumerate(timestamps), key=lambda x: x[1]).
RECURSIVE sorted_ts(_)
sorted_ts(timestamps) ==
  IF timestamps = <<>> THEN <<>>
  ELSE LET sorted == sorted_ts(SubSeq(timestamps, 1, Len(timestamps) - 1))
           x == timestamps[Len(timestamps)]
           k == Cardinality({ j \in 1..Len(sorted) : sorted[j] <= x })
       IN SubSeq(sorted, 1, k) \o <<x>> \o SubSeq(sorted, k + 1, Len(sorted))

\* detect_timestamp_clusters: ClusterLoop is its loop from index i (as in
\* the source, counted from 0) and what follows the loop.
detect_timestamp_clusters(timestamps, min_spacing_s) ==
  LET sorted == sorted_ts(timestamps)
      RECURSIVE ClusterLoop(_, _, _)
      ClusterLoop(i, cluster_start, clusters) ==
        IF i > Len(sorted) - 1
          THEN IF cluster_start # -1
                 THEN Append(clusters, <<cluster_start, Len(sorted) - 1>>)
                 ELSE clusters
          ELSE IF sorted[i + 1] - sorted[i] < min_spacing_s
                 THEN ClusterLoop(i + 1,
                                  IF cluster_start = -1 THEN i - 1 ELSE cluster_start,
                                  clusters)
                 ELSE IF cluster_start # -1
                        THEN ClusterLoop(i + 1, -1, Append(clusters, <<cluster_start, i - 1>>))
                        ELSE ClusterLoop(i + 1, -1, clusters)
  IN IF Len(timestamps) < 2 THEN <<>> ELSE ClusterLoop(1, 0, <<>>)

\* The check of one timestamp field: counted when present; when out of
\* range it is counted as invalid and recorded, in errors or in warnings,
\* and the highlight time_s also clears valid.
CheckTimestamp(r, list, idx, field, value, duration_s, as_error, clears_valid) ==
  LET location == [list |-> list, idx |-> idx, field |-> field]
      counted == [r EXCEPT !.timestamp_count = @ + 1]
      invalid == [counted EXCEPT !.invalid_count = @ + 1,
                                 !.valid = IF clears_valid THEN FALSE ELSE @]
  IN IF value = <<>> THEN r
     ELSE IF validate_timestamp_range(value[1], duration_s) THEN counted
     ELSE IF as_error
            THEN [invalid EXCEPT !.errors =
                    Append(@, [location |-> location, timestamp |-> value[1]])]
            ELSE [invalid EXCEPT !.warnings =
                    Append(@, [type |-> "range", location |-> location, clusters |-> <<>>])]

\* The timestamps list collected from the highlight moments.
RECURSIVE TimestampsOf(_)
TimestampsOf(moments) ==
  IF moments = <<>> THEN <<>>
  ELSE TimestampsOf(SubSeq(moments, 1, Len(moments) - 1))
         \o moments[Len(moments)].time_s

\* The loop over highlight_moments from its k-th entry.
RECURSIVE CheckMoments(_, _, _, _)
CheckMoments(r, moments, k, duration_s) ==
  IF k > Len(moments) THEN r
  ELSE LET r1 == CheckTimestamp(r, "highlight_moments", k - 1, "time_s",
                                moments[k].time_s, duration_s, TRUE, TRUE)
           r2 == CheckTimestamp(r1, "highlight_moments", k - 1, "suggested_thumbnail_time_s",
                                moments[k].suggested_thumbnail_time_s, duration_s, FALSE, FALSE)
       IN CheckMoments(r2, moments, k + 1, duration_s)

\* The loop over momentum_shifts from its k-th entry.
RECURSIVE CheckShifts(_, _, _, _)
CheckShifts(r, shifts, k, duration_s) ==
  IF k > Len(shifts) THEN r
  ELSE LET sh == shifts[k]
           r1 == CheckTimestamp(r, "momentum_shifts", k - 1, "start_s", sh.start_s,
                                duration_s, TRUE, FALSE)
           r2 == CheckTimestamp(r1, "momentum_shifts", k - 1, "end_s", sh.end_s,
                                duration_s, TRUE, FALSE)
           r3 == IF sh.start_s # <<>> /\ sh.end_s # <<>> /\ sh.start_s[1] >= sh.end_s[1]
                   THEN [r2 EXCEPT !.warnings = Append(@,
                           [type |-> "order",
                            location |-> [list |-> "momentum_shifts", idx |-> k - 1, field |-> ""],
                            clusters |-> <<>>])]
                   ELSE r2
       IN CheckShifts(r3, shifts, k + 1, duration_s)

\* The loop over techniques from its k-th entry.
RECURSIVE CheckTechniques(_, _, _, _)
CheckTechniques(r, techniques, k, duration_s) ==
  IF k > Len(techniques) THEN r
  ELSE LET tech == techniques[k]
           r1 == CheckTimestamp(r, "techniques", k - 1, "start_s", tech.start_s,
                                duration_s, TRUE, FALSE)
           r2 == CheckTimestamp(r1, "techniques", k - 1, "end_s", tech.end_s,
                                duration_s, TRUE, FALSE)
       IN CheckTechniques(r2, techniques, k + 1, duration_s)

\* What the steps of the validator leave alone.
ValidatorFrame == UNCHANGED <<rvars, jvars, nvars, evars, ovars, hvars, cvars>>

\* main: the duration could not be determined.
MainNoDuration ==
  /\ vpc = "start"
  /\ video_duration_s = 0
  /\ exit_status' = 1
  /\ vpc' = "done"
  /\ UNCHANGED <<analysis_json, video_duration_s, report>>
  /\ ValidatorFrame

\* main calls validate_analysis_timestamps.
MainValidates ==
  /\ vpc = "start"
  /\ video_duration_s # 0
  /\ report' = NewReport
  /\ vpc' = "highlights"
  /\ UNCHANGED <<analysis_json, video_duration_s, exit_status>>
  /\ ValidatorFrame

\* "Check highlight_moments", with the clustering check on three or more
\* timestamps.
ValidateHighlights ==
  /\ vpc = "highlights"
  /\ LET r == CheckMoments(report, analysis_json.highlight_moments, 1, video_duration_s)
         timestamps == TimestampsOf(analysis_json.highlight_moments)
         clusters == detect_timestamp_clusters(timestamps, HighlightSpacing)
     IN report' = IF Len(timestamps) >= 3 /\ clusters # <<>>
                    THEN [r EXCEPT !.warnings = Append(@,
                            [type |-> "clustering",
                             location |-> [list |-> "highlight_moments", idx |-> 0, field |-> ""],
                             clusters |-> clusters])]
                    ELSE r
  /\ vpc' = "momentum"
  /\ UNCHANGED <<analysis_json, video_duration_s, exit_status>>
  /\ ValidatorFrame

\* "Check momentum_shifts"
ValidateMomentum ==
  /\ vpc = "momentum"
  /\ report' = CheckShifts(report, analysis_json.momentum_shifts, 1, video_duration_s)
  /\ vpc' = "techniques"
  /\ UNCHANGED <<analysis_json, video_duration_s, exit_status>>
  /\ ValidatorFrame

\* "Check techniques", and the report is returned.
ValidateTechniques ==
  /\ vpc = "techniques"
  /\ report' = CheckTechniques(report, analysis_json.techniques, 1, video_duration_s)
  /\ vpc' = "report"
  /\ UNCHANGED <<analysis_json, video_duration_s, exit_status>>
  /\ ValidatorFrame

\* main: "return 0 if report["valid"] else 1"
MainReturns ==
  /\ vpc = "report"
  /\ exit_status' = IF report.valid THEN 0 ELSE 1
  /\ vpc' = "done"
  /\ UNCHANGED <<analysis_json, video_duration_s, report>>
  /\ ValidatorFrame

\* main has loaded the analysis and probed the video; get_video_duration
\* returns 0 when ffprobe fails.
ValidatorInit ==
  /\ RetryIdle
  /\ JobIdle
  /\ NormIdle
  /\ EtaIdle
  /\ OrchIdle
  /\ BeatIdle
  /\ CorrectorIdle
  /\ analysis_json \in
       [highlight_moments : UNION { [1..k -> Moments] : k \in 0..MaxMoments },
        momentum_shifts : UNION { [1..k -> Spans] : k \in 0..MaxSpans },
        techniques : UNION { [1..k -> Spans] : k \in 0..MaxSpans }]
  /\ video_duration_s \in {0, 60}
  /\ report = NewReport
  /\ vpc = "start"
  /\ exit_status = -1

ValidatorNext ==
  \/ MainNoDuration
  \/ MainValidates
  \/ ValidateHighlights
  \/ ValidateMomentum
  \/ ValidateTechniques
  \/ MainReturns

SpecValidator == ValidatorInit /\ [][ValidatorNext]_vars

\* One run of one job script.
Init ==
  /\ job \in Jobs
  \* analyze_video_gemini takes no file_id; the other three do, and a
  \* caller may pass the name of an existing file.
  /\ file_id \in (IF job \in {"thumbnails", "transcription", "highlights"}
                    THEN {"", "files/abc"} ELSE {""})
  /\ pc = "start"
  /\ own_upload = TRUE
  /\ video_file = NoFile
  /\ polls = 0
  /\ trace = <<>>
  /\ primary = Running
  /\ interrupted = "no"
  /\ outcome = Running
  /\ NormIdle
  /\ EtaIdle
  /\ OrchIdle
  /\ XIdle
  /\ max_retries = 0
  /\ backoff = DefaultBackoff
  /\ attempt = 0
  /\ delay = 0
  /\ rpc = "idle"
  /\ rresult = Running
  /\ calls = 0
  /\ errors = <<>>
  /\ sleeps = <<>>

Next ==
  \/ GetExisting
  \/ Upload
  \/ PollTest
  \/ PollGet
  \/ InterruptPoll
  \/ GenCall
  \/ SleepReturn
  \/ InterruptBackoff
  \/ GenDone
  \/ Post
  \/ Teardown

Spec == Init /\ [][Next]_vars

\* One run of one job script that is scheduled as long as it can step, and
\* whose remote does not answer PROCESSING for ever.
SpecFair ==
  Spec /\ WF_vars(Next) /\ SF_vars(PollGet /\ video_file'.state # "PROCESSING")

\* ------------------------------------------------------------ properties
\* delete_file calls issued so far, in order.
DeleteCalls == SelectSeq(trace, LAMBDA c : c.op = "delete_file")
UploadCalls == SelectSeq(trace, LAMBDA c : c.op = "upload_file")

\* Every generate_content call so far raised ServiceUnavailable or
\* DeadlineExceeded.
AlwaysTransient ==
  /\ Len(errors) = calls
  /\ \A i \in 1..Len(errors) : errors[i].type \in TransientTypes

LastError == errors[Len(errors)]

\* C1: against a model that always raises a transient error,
\* _generate_with_retry with max_retries = k never makes more than k+1
\* calls, and it ends exactly when the (k+1)-th call has failed, having
\* slept k times, by raising that error.
C1_RetryBound ==
  AlwaysTransient =>
    /\ calls <= max_retries + 1
    /\ rpc = "raised" <=> calls = max_retries + 1
    /\ rpc = "raised" =>
         /\ Len(sleeps) = max_retries
         /\ rresult.kind = "raised"
         /\ rresult.exc.type \in TransientTypes

C1_Witness ==
  /\ AlwaysTransient
  /\ rpc = "raised"
  /\ max_retries >= 2
  /\ calls = max_retries + 1

\* C2: once generate_content has raised an exception outside the three
\* retryable classes, the wrapper has ended by raising exactly that
\* exception, with no call and no sleep after it: the calls are the
\* failures so far and the sleeps are one per earlier failure.
C2_FatalShortCircuit ==
  (errors # <<>> /\ ~(LastError.type = RateLimited \/ LastError.type \in TransientTypes)) =>
    /\ rpc = "raised"
    /\ rresult = Raised(LastError)
    /\ calls = Len(errors)
    /\ Len(sleeps) = Len(errors) - 1

C2_Witness ==
  /\ Len(errors) >= 2
  /\ LastError.type = "ValueError"
  /\ rpc = "raised"
  /\ Len(sleeps) = 1

\* C3: when the retry budget is exhausted (attempt > max_retries) the
\* wrapper has raised, never returned, and the exception it raised is the
\* one of the latest generate_content call.
C3_ExhaustionRaisesLast ==
  attempt > max_retries =>
    /\ rpc = "raised"
    /\ rresult.kind = "raised"
    /\ rresult.exc = LastError
    /\ rresult.exc.call = calls

C3_Witness ==
  /\ attempt > max_retries
  /\ rpc = "raised"
  /\ Len(errors) >= 2
  /\ errors[1].type # LastError.type

\* The job performed the upload itself and the upload succeeded.
Uploaded ==
  /\ file_id = ""
  /\ Len(UploadCalls) = 1
  /\ UploadCalls[1].ok

\* Exactly one delete_file call was issued, for the uploaded handle.
DeletedOnce ==
  /\ Len(DeleteCalls) = 1
  /\ DeleteCalls[1].arg = UploadedName

\* C4: a finished run of analyze_video_gemini whose generation call
\* returned has issued exactly one delete_file call, for the handle that
\* upload_file returned, and it returns normally when the work on the
\* response completed.
C4_AnalyzerSuccessDeletesOnce ==
  (job = "analyzer" /\ pc = "done" /\ rpc = "returned") =>
    /\ Uploaded
    /\ DeletedOnce
    /\ primary = Returned => outcome = Returned

C4_Witness ==
  /\ job = "analyzer"
  /\ pc = "done"
  /\ trace[1] = Call("upload_file", UploadedName, TRUE)
  /\ polls >= 1
  /\ video_file.state = "ACTIVE"
  /\ rpc = "returned"
  /\ outcome = Returned
  /\ DeletedOnce

\* C5 (as claimed): when the remote reports FAILED for an asset that
\* analyze_video_gemini, select_and_extract_thumbnails or
\* generate_transcription uploaded itself, the job ends with an error and
\* has issued exactly one delete_file call for the asset.
C5_FailedStillDeletes ==
  (job \in {"analyzer", "thumbnails", "transcription"} /\ Uploaded
     /\ pc = "done" /\ video_file.state = "FAILED") =>
    /\ outcome.kind \in {"exit", "raised"}
    /\ DeletedOnce

\* C6 (as claimed): a KeyboardInterrupt during the polling loop of
\* analyze_video_gemini or select_and_extract_thumbnails, after the job's
\* own upload, ends the job (no further poll), the delete of the uploaded
\* asset is attempted, and KeyboardInterrupt reaches the caller.
C6_PollInterruptTearsDown ==
  (job \in {"analyzer", "thumbnails"} /\ Uploaded /\ interrupted = "poll") =>
    /\ pc = "done"
    /\ outcome = Raised(KeyboardInterrupt)
    /\ DeletedOnce

\* C7 (as claimed): select_highlights, having uploaded the asset itself,
\* has issued a delete_file call for it whenever the job has ended by
\* writing its output, by a generation or parse failure, or on a remote
\* FAILED.
C7_HighlightsAlwaysDeletes ==
  (job = "highlights" /\ Uploaded /\ pc = "done"
     /\ (primary # Running \/ video_file.state = "FAILED")) =>
    /\ Len(DeleteCalls) >= 1
    /\ DeleteCalls[1].arg = UploadedName

\* C8: when the generation call of analyze_video_gemini or
\* select_and_extract_thumbnails ends in an exception (a non-retryable one,
\* or a retryable one after the budget is spent) after the job's own
\* upload, the finished job has issued exactly one delete_file call for the
\* uploaded asset and the caller observes that exception.
C8_GenerationFailureDeletesOnce ==
  (job \in {"analyzer", "thumbnails"} /\ Uploaded /\ pc = "done"
     /\ rpc = "raised" /\ rresult.exc.type # "KeyboardInterrupt") =>
    /\ DeletedOnce
    /\ outcome = rresult
    /\ outcome.exc = LastError

C8_Witness ==
  /\ job = "thumbnails"
  /\ Uploaded
  /\ pc = "done"
  /\ rpc = "raised"
  /\ attempt > max_retries
  /\ rresult.exc.type = RateLimited
  /\ DeletedOnce
  /\ outcome = rresult

\* C9: with a file_id supplied to select_and_extract_thumbnails or
\* generate_transcription, no upload_file and no delete_file call is ever
\* issued; the first call is get_file(file_id) and the job continues with
\* the file that call returned.
C9_ReuseNeverUploadsNorDeletes ==
  (job \in {"thumbnails", "transcription"} /\ file_id # "") =>
    /\ Len(UploadCalls) = 0
    /\ Len(DeleteCalls) = 0
    /\ trace # <<>> => trace[1].op = "get_file" /\ trace[1].arg = file_id
    /\ pc \notin {"start", "done"} => ~own_upload /\ video_file.name = file_id

C9_Witness ==
  /\ job = "transcription"
  /\ file_id # ""
  /\ pc = "done"
  /\ polls = 0
  /\ primary.kind = "raised"
  /\ outcome = SystemExit1

\* Some delete_file call failed.
DeleteFailed == \E i \in 1..Len(DeleteCalls) : ~DeleteCalls[i].ok

\* C10: a failed delete_file call leaves the result of the job as the
\* guarded work determined it: success stays success, and after an error of
\* the work the caller sees that error (analyze_video_gemini,
\* select_and_extract_thumbnails) or the exit status 1 that
\* generate_transcription gives every such error, never the delete error.
C10_DeleteFailureKeepsOutcome ==
  (pc = "done" /\ DeleteFailed) =>
    /\ outcome.exc.type # "DeleteError"
    /\ primary = Returned => outcome = Returned
    /\ (primary.kind = "raised" /\ job \in {"analyzer", "thumbnails"}) =>
         outcome = primary
    /\ (primary.kind = "raised" /\ job = "transcription") =>
         outcome = SystemExit1

C10_Witness ==
  /\ pc = "done"
  /\ DeleteFailed
  /\ job = "analyzer"
  /\ primary.kind = "raised"
  /\ primary.exc.type = "ValueError"
  /\ outcome = primary

\* Calls of one kind issued so far, by position in trace.
Positions(op) == {i \in 1..Len(trace) : trace[i].op = op}

\* C11 (as claimed): a rate-limited or transiently-unavailable failure of
\* upload_file is retried, so the job never ends on its first upload error
\* of such a class.
C11_UploadRetried ==
  ~ /\ pc = "done"
    /\ Len(UploadCalls) = 1
    /\ ~UploadCalls[1].ok
    /\ outcome.kind = "raised"
    /\ (outcome.exc.type = RateLimited \/ outcome.exc.type \in TransientTypes)

\* C12: the calls of a job are ordered: every get_file poll of a job that
\* uploads comes after the upload_file call that returned, every
\* generate_content call comes after the last poll and finds the file no
\* longer PROCESSING, and the response is worked on only after
\* _generate_with_retry has returned.
C12_LinearPipeline ==
  /\ \A i \in Positions("get_file") :
       file_id = "" => \E u \in Positions("upload_file") : u < i /\ trace[u].ok
  /\ \A g \in Positions("generate_content") :
       /\ \A i \in Positions("get_file") \cup Positions("upload_file") : i < g
       /\ video_file.state # "PROCESSING"
       /\ trace[g].arg = video_file.name
  /\ pc = "post" => (rpc = "returned" /\ Positions("generate_content") # {})
  /\ primary = Returned => rpc = "returned"

C12_Witness ==
  /\ job = "highlights"
  /\ file_id = ""
  /\ pc = "post"
  /\ polls = 2
  /\ calls = 2
  /\ Len(trace) = 5

\* C13: once the remote has reported FAILED the job makes no further remote
\* call (no generate_content, upload_file or get_file follows the report)
\* and it ends with exit status 1.
C13_FailedIsTerminal ==
  video_file.state = "FAILED" =>
    /\ pc \in {"poll", "done"}
    /\ trace[Len(trace)].op \in {"upload_file", "get_file"}
    /\ trace[Len(trace)].ok
    /\ Positions("generate_content") = {}
    /\ Len(UploadCalls) <= 1
    /\ pc = "done" => outcome = SystemExit1

C13_Witness ==
  /\ video_file.state = "FAILED"
  /\ job = "analyzer"
  /\ pc = "done"
  /\ polls = 2
  /\ outcome = SystemExit1

\* C14: an exception of a get_file call inside the polling loop ends the
\* job with that exception; no later call follows it.
C14_PollFailureSurfaces ==
  (polls >= 1 /\ trace[Len(trace)] = Call("get_file", video_file.name, FALSE)) =>
    /\ pc = "done"
    /\ outcome.kind = "raised"
    /\ outcome.exc.type = "PollError"
  /\ \A i \in 1..Len(trace) :
       (trace[i].op = "get_file" /\ ~trace[i].ok) => i = Len(trace)

C14_Witness ==
  /\ job = "transcription"
  /\ polls = 2
  /\ trace[Len(trace)] = Call("get_file", video_file.name, FALSE)
  /\ pc = "done"
  /\ outcome.kind = "raised"

\* ------------------------------------------------------------ the waits
RECURSIVE Pow(_, _)
Pow(b, n) == IF n = 0 THEN 1 ELSE b * Pow(b, n - 1)

\* base * multiplier^(n-1), in ms, for the base and multiplier of this run.
ExpDelay(n) == (DefaultInitialDelay * Pow(backoff, n - 1)) \div Pow(10, n - 1)

\* The failure handled before the n-th sleep carried a usable server hint.
Hinted(n) == errors[n].type = RateLimited /\ _parse_retry_delay(errors[n]) > 0

\* The n-th sleep is w times a jitter factor in [1.05, 1.25].
SleptFor(n, w) == \E j \in JitterLo..JitterHi : sleeps[n] = (w * (100 + j)) \div 100

\* C15: the wait before jitter is the hint parsed from the error text if
\* and only if the failure is ResourceExhausted and the parsed delay is
\* positive; for ServiceUnavailable/DeadlineExceeded, and for an absent or
\* non-positive hint, it is the exponential delay.
C15_HintOnlyForRateLimit ==
  \A n \in 1..Len(sleeps) :
    /\ Hinted(n) <=> SleptFor(n, _parse_retry_delay(errors[n]))
    /\ ~Hinted(n) <=> SleptFor(n, ExpDelay(n))

C15_Witness ==
  /\ Len(sleeps) = 3
  /\ errors[1].type = "ServiceUnavailable" /\ errors[1].msg.retry_in = 3000
  /\ errors[2].type = RateLimited /\ errors[2].msg.retry_in = 0
  /\ errors[3].type = RateLimited /\ errors[3].msg.retry_delay = 4

\* C16: without a usable hint the n-th wait is base * multiplier^(n-1)
\* times a jitter factor in [1.05, 1.25], the exponent counting every
\* earlier retry, hinted ones included.
C16_ExponentialWait ==
  \A n \in 1..Len(sleeps) : ~Hinted(n) => SleptFor(n, ExpDelay(n))

\* The example of the tests: hint 3.0 s, then two transient failures, with
\* base 5, multiplier 1.7 and jitter 0.1.
C16_Witness ==
  /\ backoff = DefaultBackoff
  /\ sleeps = <<3300, 9350, 15895>>
  /\ Hinted(1) /\ ~Hinted(2) /\ ~Hinted(3)

\* C17: with no server hint, each wait is at least the wait before it,
\* whatever the two jitter draws.
C17_BackoffMonotone ==
  \A n \in 1..(Len(sleeps) - 1) :
    (~Hinted(n) /\ ~Hinted(n + 1)) => sleeps[n + 1] >= sleeps[n]

\* The largest jitter followed by the smallest, twice over.
C17_Witness ==
  /\ Len(sleeps) = 3
  /\ \A n \in 1..3 : ~Hinted(n)
  /\ sleeps[1] = (ExpDelay(1) * (100 + JitterHi)) \div 100
  /\ sleeps[2] = (ExpDelay(2) * (100 + JitterLo)) \div 100
  /\ sleeps[3] > sleeps[2]

\* ------------------------------------------------------ the highlight list
Length(h) == h.end_seconds - h.start_seconds

\* C18: any two emitted highlights a, b with a.start < b.start are at least
\* 2 seconds apart: b.start - a.end >= 2.0.
C18_SpacingInvariant ==
  \A a \in 1..Len(normalized), b \in 1..Len(normalized) :
    normalized[a].start_seconds < normalized[b].start_seconds =>
      normalized[b].start_seconds - normalized[a].end_seconds >= Spacing

\* Three candidates of which the middle one is dropped for being within
\* 2 s of the first.
C18_Witness ==
  /\ npc = "normalized"
  /\ Len(items) = 3
  /\ Len(normalized) = 2
  /\ normalized[2].start_seconds - normalized[1].end_seconds = Spacing

\* C19 (as claimed): every emitted highlight is between 4.5 s and 5.5 s
\* long, whatever the candidates and the video duration.
C19_DurationBound ==
  \A i \in 1..Len(normalized) :
    Length(normalized[i]) >= MinLength /\ Length(normalized[i]) <= MaxLength

\* C20: normalize_highlights applied to its own output returns that output:
\* nothing is dropped, reordered or changed.
C20_NormalizeIdempotent ==
  npc = "renormalized" => renormalized = normalized

\* A list in which one candidate was dropped, one was re-cut to 5 s and one
\* was cut by the end of the video.
C20_Witness ==
  /\ npc = "renormalized"
  /\ Len(items) = 3
  /\ Len(normalized) = 2
  /\ \E i \in 1..3 : items[i].id = normalized[1].id /\ items[i] # normalized[1]
  /\ Length(normalized[2]) < MinLength

\* ------------------------------------------------- caps, order and ranges
\* C21: whatever the size of the response, normalize_highlights returns at
\* most 10 intervals, the thumbnails dedupe keeps at most 10 candidates and
\* parse_and_validate_json returns at most max_edits edits.
C21_CountCap ==
  /\ Len(normalized) <= MaxHighlights
  /\ Len(deduped) <= MaxThumbnails
  /\ Len(guide.edits) <= max_edits

\* Twelve candidates far enough apart to be accepted, cut to ten.
C21_Witness ==
  /\ tool = "highlights"
  /\ npc = "normalized"
  /\ duration_seconds = 1000
  /\ Len(items) = 12
  /\ \A i \in 1..11 : items[i + 1].start_seconds - items[i].start_seconds = 70
  /\ Len(normalized) = MaxHighlights

\* The state in which the four instants of scenario A have been normalized
\* on a span of 100 s.
ScenarioADone ==
  /\ tool = "highlights"
  /\ response = ScenarioA
  /\ parses
  /\ duration_seconds = 1000
  /\ npc = "normalized"

\* C22 (as claimed): scenario A yields exactly 3 intervals, each about 5 s
\* long and sorted by start: the candidates at 1 s, 2.0 s and 10 s, the one
\* at 2.1 s being dropped.
C22_ScenarioAThree ==
  ScenarioADone =>
    /\ Len(normalized) = 3
    /\ \A i \in 1..Len(normalized) :
         normalized[i].end_seconds - normalized[i].start_seconds \in MinLength..MaxLength
    /\ \A i \in 1..(Len(normalized) - 1) :
         normalized[i].start_seconds <= normalized[i + 1].start_seconds
    /\ {normalized[i].id : i \in 1..Len(normalized)} = {1, 2, 4}

\* C22 (amended): scenario A yields exactly 2 intervals, 1-6 s and 10-15 s:
\* the candidates at 2.0 s and 2.1 s both fall within 2 s of the widened
\* first candidate and neither survives.
C22_ScenarioATwo ==
  ScenarioADone =>
    normalized = << [id |-> 1, start_seconds |-> 10, end_seconds |-> 60],
                    [id |-> 4, start_seconds |-> 100, end_seconds |-> 150] >>

C22_Witness ==
  /\ ScenarioADone
  /\ Len(items) = 4
  /\ Len(normalized) = 2

\* Entry x was listed but is not among the kept entries.
Missing(x, kept) == \A k \in 1..Len(kept) : kept[k].id # x.id

\* C23 (as claimed): when entries are cut by a cap, the ones kept are the
\* earliest by start, whatever the order the model listed them in: a
\* highlight that is missing from the output either collides with a kept one
\* or starts no earlier than each of the 10 kept; a valid edit that is
\* missing from the guide starts no earlier than each of the max_edits kept.
C23_EarliestKept ==
  /\ (tool = "highlights" /\ npc = "normalized") =>
       \A i \in 1..Len(items) :
         Missing(items[i], normalized) =>
           \/ \E k \in 1..Len(normalized) :
                /\ normalized[k].start_seconds <= items[i].start_seconds
                /\ items[i].start_seconds < normalized[k].end_seconds + Spacing
           \/ /\ Len(normalized) = MaxHighlights
              /\ \A k \in 1..Len(normalized) :
                   normalized[k].start_seconds <= items[i].start_seconds
  /\ (tool = "guide" /\ npc = "parsed" /\ parses) =>
       \A i \in 1..Len(response) :
         LET e == ValidateEdit(response[i], duration_seconds)
         IN (e.ok /\ Missing(e, guide.edits)) =>
              /\ Len(guide.edits) = max_edits
              /\ \A k \in 1..Len(guide.edits) :
                   _parse_hhmmss(guide.edits[k].start) <= _parse_hhmmss(e.start)

\* C24: every interval that has passed parse_and_validate and
\* normalize_highlights has 0 <= start <= end <= video duration.
C24_WithinVideo ==
  \A i \in 1..Len(normalized) :
    /\ 0 <= normalized[i].start_seconds
    /\ normalized[i].start_seconds <= normalized[i].end_seconds
    /\ normalized[i].end_seconds <= duration_seconds

\* A negative start, a swapped pair and an end past the video, all kept.
C24_Witness ==
  /\ tool = "highlights"
  /\ npc = "normalized"
  /\ Len(response) = 3
  /\ \E i \in 1..3 : response[i].numeric /\ response[i].start_seconds < 0
  /\ \E i \in 1..3 : response[i].numeric /\ response[i].start_seconds > response[i].end_seconds
  /\ \E i \in 1..3 : response[i].numeric /\ response[i].end_seconds > duration_seconds
  /\ Len(normalized) = 3

\* C25: the highlights computed for and written to the output are in
\* ascending order of start and carry the indices 1..n in that order.
C25_SortedAndIndexed ==
  /\ \A i \in 1..Len(final_highlights) : final_highlights[i].index = i
  /\ \A i \in 1..Len(final_highlights), j \in 1..Len(final_highlights) :
       final_highlights[i].index < final_highlights[j].index =>
         final_highlights[i].start_seconds <= final_highlights[j].start_seconds
  /\ (tool = "highlights" /\ npc = "written") => written = final_highlights

\* Three candidates listed latest first, all kept.
C25_Witness ==
  /\ tool = "highlights"
  /\ npc = "written"
  /\ Len(response) = 3
  /\ response[1].start_seconds > response[2].start_seconds
  /\ response[2].start_seconds > response[3].start_seconds
  /\ Len(written) = 3
  /\ written[1].id = 3

\* C26: no two kept thumbnails round to the same whole second; for every
\* candidate the thumbnail kept for its second is no later than it (unless
\* the candidate lies behind the 10 kept); and the candidates 1, 2, 2.1, 10
\* yield 3 thumbnails.
C26_OnePerSecond ==
  (tool = "thumbnails" /\ npc \in {"deduped", "written"}) =>
    /\ \A i \in 1..Len(deduped), j \in 1..Len(deduped) :
         i # j => RoundHalfEven(deduped[i].timestamp_seconds, 10)
                    # RoundHalfEven(deduped[j].timestamp_seconds, 10)
    /\ \A c \in 1..Len(candidates) :
         \/ \E k \in 1..Len(deduped) :
              /\ RoundHalfEven(deduped[k].timestamp_seconds, 10)
                   = RoundHalfEven(candidates[c].timestamp_seconds, 10)
              /\ deduped[k].timestamp_seconds <= candidates[c].timestamp_seconds
         \/ /\ Len(deduped) = MaxThumbnails
            /\ \A k \in 1..Len(deduped) :
                 deduped[k].timestamp_seconds <= candidates[c].timestamp_seconds
    /\ (response = TestThumbs /\ parses) => Len(deduped) = 3

C26_Witness ==
  /\ tool = "thumbnails"
  /\ npc = "written"
  /\ response = TestThumbs
  /\ parses
  /\ Len(candidates) = 4
  /\ Len(written) = 3

\* C27: when json.loads rejects the text, parse_and_validate returns an
\* empty list and parse_and_validate_json a guide without edits, nothing
\* read from the broken text is kept, and the work ends by writing an empty
\* result, not by an error exit.
C27_ParseFailureEmpty ==
  (~parses /\ tool \in {"highlights", "guide"}) =>
    /\ items = <<>>
    /\ normalized = <<>>
    /\ guide.edits = <<>>
    /\ nresult \in {Running, Returned}
    /\ npc = "written" => (written = <<>> /\ nresult = Returned)

C27_Witness ==
  /\ ~parses
  /\ tool = "highlights"
  /\ Len(response) = 2
  /\ npc = "written"
  /\ written = <<>>

\* ------------------------------------------------- the estimate of a loop
\* C28: the estimated total never shrinks from one poll iteration to the
\* next.
C28_EstimateMonotone == [][est_total' >= est_total]_vars

\* The estimate has been revised twice, by the transcription rule.
C28_Witness ==
  /\ eta_rule = "div"
  /\ ticks >= 3
  /\ revised
  /\ est_total = (elapsed * 10) \div 7
  /\ est_total > 200000

\* C29: at every poll iteration the time remaining is positive: above a
\* tenth of the estimate, and at least a quarter of the elapsed time when
\* the estimate was revised in that iteration.
C29_RemainingPositive ==
  ticks >= 1 =>
    /\ remaining > 0
    /\ 10 * remaining > est_total
    /\ revised => 4 * remaining >= elapsed

C29_Witness ==
  /\ eta_rule = "max"
  /\ ticks >= 2
  /\ revised
  /\ 4 * remaining = elapsed

\* ------------------------------------------------------ the orchestrator
\* C30: a run of the orchestrator makes exactly one upload_file call; a
\* delete_file call is issued only by main's cleanup, once, for the shared
\* file, after all three sub-processors have returned; the sub-processor
\* that runs on --file-id issues none.
C30_OnlyCreatorDeletes ==
  /\ Len(UploadCalls) = (IF opc = "upload" THEN 0 ELSE 1)
  /\ opc = "wait" => (file_id = gfile.name /\ DeleteCalls = <<>>)
  /\ DeleteCalls # <<>> =>
       /\ opc = "done"
       /\ returned = SubProcessors
       /\ Len(DeleteCalls) = 1
       /\ DeleteCalls[1].arg = gfile.name
       /\ trace[Len(trace)].op = "delete_file"

\* The thumbnails script has finished its work on the shared file and main
\* has deleted it.
C30_Witness ==
  /\ opc = "done"
  /\ returned = SubProcessors
  /\ job = "thumbnails"
  /\ outcome = Returned
  /\ calls >= 1
  /\ Len(DeleteCalls) = 1

\* C31: a KeyboardInterrupt during the backoff sleep of _generate_with_retry,
\* inside analyze_video_gemini or select_and_extract_thumbnails after the
\* job's own upload, ends the wrapper with that KeyboardInterrupt and no
\* generate_content call follows (every call so far failed and was followed
\* by a sleep); the finished job has issued exactly one delete_file call,
\* for the uploaded asset, as its last remote call, and the caller observes
\* KeyboardInterrupt.
C31_BackoffInterruptTearsDown ==
  (job \in {"analyzer", "thumbnails"} /\ Uploaded /\ interrupted = "backoff") =>
    /\ rpc = "raised"
    /\ rresult = Raised(KeyboardInterrupt)
    /\ calls = Len(errors)
    /\ calls = Len(sleeps)
    /\ pc \in {"generate", "teardown", "done"}
    /\ pc # "done" => DeleteCalls = <<>> /\ outcome = Running
    /\ pc = "done" =>
         /\ DeletedOnce
         /\ trace[Len(trace)].op = "delete_file"
         /\ outcome = Raised(KeyboardInterrupt)

C31_Witness ==
  /\ job = "thumbnails"
  /\ Uploaded
  /\ interrupted = "backoff"
  /\ calls = 1
  /\ errors[1].type = RateLimited
  /\ pc = "done"
  /\ DeletedOnce
  /\ outcome = Raised(KeyboardInterrupt)

RetryableFailures == SelectSeq(errors, LAMBDA e : IsRetryable(e.type))

\* C33: whatever mix of ResourceExhausted, ServiceUnavailable and
\* DeadlineExceeded failures occurs, _generate_with_retry counts them all on
\* one attempt counter, makes at most max_retries + 1 generate_content calls
\* and sleeps at most max_retries times, and once the (max_retries + 1)-th
\* call has been made it has ended, with a result or with an error.
C33_SharedBudget ==
  job = "none" =>
    /\ attempt = Len(RetryableFailures)
    /\ calls <= max_retries + 1
    /\ Len(sleeps) <= max_retries
    /\ Len(sleeps) + Len(errors) <= 2 * max_retries + 1
    /\ calls = max_retries + 1 =>
         /\ rpc \in {"returned", "raised"}
         /\ rresult.kind \in {"ok", "raised"}
    /\ rpc \in {"returned", "raised"} <=> rresult # Running

C33_Witness ==
  /\ job = "none"
  /\ max_retries = 2
  /\ calls = 3
  /\ rpc = "raised"
  /\ Len(errors) = 3
  /\ errors[1].type = RateLimited
  /\ errors[2].type = "ServiceUnavailable"
  /\ errors[3].type = "DeadlineExceeded"
  /\ rresult = Raised(errors[3])

\* C34: the polling loop is left only by a remote state other than
\* PROCESSING (or by an exception): the job is never past the loop with the
\* file still PROCESSING, and while the file is PROCESSING the loop test
\* leads to another sleep however many polls were made; when the remote
\* does not answer PROCESSING for ever, every job ends (pc = "done", with a
\* result, an exit status or an exception).
C34_PollingUnbounded ==
  /\ [](pc \in {"generate", "post", "teardown"} => video_file.state # "PROCESSING")
  /\ []((pc = "done" /\ video_file.state = "PROCESSING") => outcome.kind \in {"raised", "exit"})
  /\ [][(pc = "poll" /\ video_file.state = "PROCESSING") => pc' = "poll_sleep"]_vars
  /\ <>(pc = "done" /\ outcome # Running)

\* The loop is still running after more polls than are counted.
C34_Witness ==
  /\ pc = "poll_sleep"
  /\ polls = MaxPolls
  /\ video_file.state = "PROCESSING"
  /\ Len(SelectSeq(trace, LAMBDA c : c.op = "get_file")) = MaxPolls
  /\ outcome = Running

\* C35 (as claimed): when upload_file raises in gemini_orchestrator.main,
\* the caller of main observes that upload exception; the finally clause
\* of the upload does not put another exception in its place.
C35_UploadErrorObserved ==
  (opc = "raised" /\ trace = <<Call("upload_file", "", FALSE)>>) =>
    /\ oresult.kind = "raised"
    /\ oresult.exc.type \in UploadFailureTypes

\* C36 (as claimed): once the uploading thread has written the "Upload
\* complete" line, the heartbeat thread writes no "Uploading..." line.
C36_NoBeatAfterComplete ==
  \A i \in 1..Len(stream), j \in 1..Len(stream) :
    (i < j /\ stream[i] = "Upload complete") => stream[j] # "Uploading"

\* C37 (as claimed): every edit parse_and_validate_json emits has, in its
\* formatted HH:MM:SS timecodes, 0 <= start < end <= video duration, and
\* the edits are in ascending order of start.
C37_TimecodesValid ==
  (tool = "guide" /\ npc \in {"parsed", "written"}) =>
    /\ \A k \in 1..Len(guide.edits) :
         /\ 0 <= _parse_hhmmss(guide.edits[k].start)
         /\ _parse_hhmmss(guide.edits[k].start) < _parse_hhmmss(guide.edits[k].end)
         /\ _parse_hhmmss(guide.edits[k].end) <= duration_seconds
    /\ \A k \in 1..(Len(guide.edits) - 1) :
         _parse_hhmmss(guide.edits[k].start) <= _parse_hhmmss(guide.edits[k + 1].start)

\* C38 (as claimed): in interactive_mode, modified is set whenever the
\* analysis in memory differs from the content of the file, so a changed
\* timestamp is written by "s" and leads to the save prompt at "q".
C38_ModifiedTracksChanges ==
  /\ (cpc = "loop" /\ analysis # disk) => modified
  /\ (cpc = "done" /\ analysis # disk) => asked

\* C39 (as claimed): validate_analysis_timestamps returns valid = TRUE only
\* with an empty errors list, an out-of-range time_s, start_s or end_s makes
\* the report invalid, and main then exits with status 1.
C39_ValidOnlyWithoutErrors ==
  vpc \in {"report", "done"} /\ video_duration_s # 0 =>
    /\ report.valid => report.errors = <<>>
    /\ (\E k \in 1..Len(analysis_json.techniques) :
          \E v \in {analysis_json.techniques[k].start_s, analysis_json.techniques[k].end_s} :
            v # <<>> /\ ~validate_timestamp_range(v[1], video_duration_s))
         => ~report.valid
    /\ (\E k \in 1..Len(analysis_json.momentum_shifts) :
          \E v \in {analysis_json.momentum_shifts[k].start_s, analysis_json.momentum_shifts[k].end_s} :
            v # <<>> /\ ~validate_timestamp_range(v[1], video_duration_s))
         => ~report.valid
    /\ (\E k \in 1..Len(analysis_json.highlight_moments) :
          LET v == analysis_json.highlight_moments[k].time_s
          IN v # <<>> /\ ~validate_timestamp_range(v[1], video_duration_s))
         => ~report.valid
    /\ (vpc = "done" /\ exit_status = 0) => report.errors = <<>>

\* C40 (as claimed): every (start_index, end_index) pair that
\* detect_timestamp_clusters returns has start_index < end_index and covers
\* sorted timestamps whose adjacent gaps are all below min_spacing_s, and
\* timestamps that are all at least min_spacing_s apart give no cluster, so
\* no clustering warning.
C40_ClustersAreCloseRuns ==
  vpc \in {"momentum", "techniques", "report", "done"} /\ video_duration_s # 0 =>
    LET sorted == sorted_ts(TimestampsOf(analysis_json.highlight_moments))
        found == SelectSeq(report.warnings, LAMBDA w : w.type = "clustering")
        apart == \A k \in 1..(Len(sorted) - 1) : sorted[k + 1] - sorted[k] >= HighlightSpacing
    IN /\ \A n \in 1..Len(found) : \A m \in 1..Len(found[n].clusters) :
            LET pair == found[n].clusters[m]
            IN /\ pair[1] < pair[2]
               /\ \A k \in pair[1]..(pair[2] - 1) :
                    sorted[k + 2] - sorted[k + 1] < HighlightSpacing
       /\ apart => found = <<>>

====
